---------------------------- MODULE Spec2Model ----------------------------
(***************************************************************************)
(* A model of the ryan85 virtual machine: the instruction decoder of       *)
(* src/vm/arch.rs and the execution engine of src/vm/emulator.rs.          *)
(*                                                                         *)
(* The unified buffer (Emulator.mem, a Vec<u8>) is held as a record        *)
(* [len, data]: len is the length of the vector and data maps exactly the  *)
(* indices below len whose byte is not 0 to that byte; every other index   *)
(* below len holds 0.  Indices are 0-based as in the source.               *)
(***************************************************************************)
EXTENDS Integers, Sequences, FiniteSets, TLC

VARIABLES
    consts,           \* Emulator.consts: the VMConsts of the session
    mem,              \* Emulator.mem: the unified buffer
    overflow_checks,  \* whether the build traps u8 overflow of the bare + and -
    hist,             \* the calls made so far, oldest first: for each one the
                      \* call, the buffer before it, the instruction it decoded,
                      \* the host's answer and the result it returned
    dec               \* the decoder on its own: its inputs and its output

vars == <<consts, mem, overflow_checks, hist, dec>>

-----------------------------------------------------------------------------
(* Program constants. *)

RamBase == 768      \* 0x300
RamSize == 256      \* 0x100
LocA == 1024        \* 0x400
LocB == 1025
LocC == 1026
LocD == 1027
LocS == 1028
LocI == 1029
LocF == 1030
LocNone == 65535    \* 0xffff
REG_NONE == 0
InstrLen == 3
U8 == 256
NoLoc == 0 - 1      \* Option<u16>::None of reg_to_mem_location

Byte == 0 .. (U8 - 1)

-----------------------------------------------------------------------------
(* u8 arithmetic. *)

\* (mutant) an addition that saturates at 255 instead of wrapping
wrapping_add_saturating(x, y) == IF x + y >= U8 THEN U8 - 1 ELSE x + y

\* u8::wrapping_add
wrapping_add(x, y) == (x + y) % U8

RECURSIVE OrBits(_, _, _)
OrBits(x, y, k) ==
    IF k = 0 THEN 0
    ELSE (IF x % 2 = 1 \/ y % 2 = 1 THEN 1 ELSE 0)
         + 2 * OrBits(x \div 2, y \div 2, k - 1)

RECURSIVE AndBits(_, _, _)
AndBits(x, y, k) ==
    IF k = 0 THEN 0
    ELSE (IF x % 2 = 1 /\ y % 2 = 1 THEN 1 ELSE 0)
         + 2 * AndBits(x \div 2, y \div 2, k - 1)

\* the | and & of two u8
BitOr(x, y) == OrBits(x, y, 8)
BitAnd(x, y) == AndBits(x, y, 8)

-----------------------------------------------------------------------------
(* Results.  A Result<u8, EmulationError> is [ok, val, err]; err is a pair *)
(* <<variant, payload>>.  A panic of the thread is the variant "Panic".    *)

NoError == <<"None", 0>>
Ok(v) == [ok |-> TRUE, val |-> v, err |-> NoError]
Err(e) == [ok |-> FALSE, val |-> 0, err |-> e]
InvalidRegister(r) == <<"InvalidRegister", r>>
InvalidInstruction(b) == <<"InvalidInstruction", b>>
InvalidMemoryAddress(a) == <<"InvalidMemoryAddress", a>>
InvalidSyscall(n) == <<"InvalidSyscall", n>>
OtherError == <<"OtherError", 0>>
Panic == <<"Panic", 0>>

\* the outcome of a call that may write: the buffer it leaves and its result
Out(m, r) == [mem |-> m, r |-> r]

-----------------------------------------------------------------------------
(* The buffer. *)

\* Vec::get(location)
Get(m, location) ==
    IF location \in DOMAIN m.data THEN m.data[location] ELSE 0

InBounds(m, location) == location >= 0 /\ location < m.len

\* *mem = val through Vec::get_mut(location)
Put(m, location, val) ==
    [m EXCEPT !.data =
        IF val = 0
        THEN [x \in (DOMAIN m.data) \ {location} |-> m.data[x]]
        ELSE [x \in (DOMAIN m.data) \cup {location} |->
                 IF x = location THEN val ELSE m.data[x]]]

\* (mutant) a resolution in which b shares the slot of a
reg_to_mem_location_aliased(registers, reg_value) ==
    IF reg_value = registers.a THEN LocA
    ELSE IF reg_value = registers.b THEN LocA
    ELSE IF reg_value = registers.c THEN LocC
    ELSE IF reg_value = registers.d THEN LocD
    ELSE IF reg_value = registers.s THEN LocS
    ELSE IF reg_value = registers.i THEN LocI
    ELSE IF reg_value = registers.f THEN LocF
    ELSE IF reg_value = REG_NONE THEN LocNone
    ELSE NoLoc

\* Registers::reg_to_mem_location: the first arm that matches wins
reg_to_mem_location(registers, reg_value) ==
    IF reg_value = registers.a THEN LocA
    ELSE IF reg_value = registers.b THEN LocB
    ELSE IF reg_value = registers.c THEN LocC
    ELSE IF reg_value = registers.d THEN LocD
    ELSE IF reg_value = registers.s THEN LocS
    ELSE IF reg_value = registers.i THEN LocI
    ELSE IF reg_value = registers.f THEN LocF
    ELSE IF reg_value = REG_NONE THEN LocNone
    ELSE NoLoc

\* Emulator::read_memory_raw
read_memory_raw(m, location) ==
    IF InBounds(m, location) THEN Ok(Get(m, location))
    ELSE Err(InvalidMemoryAddress(location))

\* Emulator::read_register
read_register(c, m, register) ==
    LET register_location == reg_to_mem_location(c.registers, register)
    IN  IF register_location = NoLoc THEN Err(InvalidRegister(register))
        ELSE read_memory_raw(m, register_location)

\* Emulator::read_memory
read_memory(m, location) == read_memory_raw(m, location + RamBase)

\* (mutant) a bounds check that lets the first index past the end through
write_memory_raw_off_by_one(m, location, val) ==
    IF location >= 0 /\ location <= m.len THEN Out(Put(m, location, val), Ok(0))
    ELSE Out(m, Err(InvalidMemoryAddress(location)))

\* Emulator::write_memory_raw
write_memory_raw(m, location, val) ==
    IF InBounds(m, location) THEN Out(Put(m, location, val), Ok(0))
    ELSE Out(m, Err(InvalidMemoryAddress(location)))

\* Emulator::write_register
write_register(c, m, register, val) ==
    LET register_location == reg_to_mem_location(c.registers, register)
    IN  IF register_location = NoLoc THEN Out(m, Err(InvalidRegister(register)))
        ELSE write_memory_raw(m, register_location, val)

\* (mutant) a window based at 0x200, inside the code region
write_memory_low_base(m, location, val) ==
    IF location + 512 >= 0 /\ location + 512 < m.len
    THEN [mem |-> [m EXCEPT !.data =
                      IF val = 0
                      THEN [x \in (DOMAIN m.data) \ {location + 512} |-> m.data[x]]
                      ELSE [x \in (DOMAIN m.data) \cup {location + 512} |->
                               IF x = location + 512 THEN val ELSE m.data[x]]],
          r |-> [ok |-> TRUE, val |-> 0, err |-> NoError]]
    ELSE [mem |-> m, r |-> [ok |-> FALSE, val |-> 0,
                            err |-> InvalidMemoryAddress(location + 512)]]

\* Emulator::write_memory
write_memory(m, location, val) == write_memory_raw(m, location + RamBase, val)

-----------------------------------------------------------------------------
(* The instruction model (arch.rs). *)

NoInstr == [kind |-> "None"]

\* the match on the opcode byte in Instruction::from_bytes: the first arm
\* whose opcode equals the byte wins
match_opcode(opcode, left_param, right_param, opcodes) ==
    IF opcode = opcodes.sys
      THEN [kind |-> "Sys", num |-> left_param, dst |-> right_param]
    ELSE IF opcode = opcodes.cmp
      THEN [kind |-> "Cmp", left |-> left_param, right |-> right_param]
    ELSE IF opcode = opcodes.stk
      THEN [kind |-> "Stk", pop |-> left_param, push |-> right_param]
    ELSE IF opcode = opcodes.ldm
      THEN [kind |-> "Ldm", dst |-> left_param, src |-> right_param]
    ELSE IF opcode = opcodes.stm
      THEN [kind |-> "Stm", dst |-> left_param, src |-> right_param]
    ELSE IF opcode = opcodes.imm
      THEN [kind |-> "Imm", dst |-> left_param, val |-> right_param]
    ELSE IF opcode = opcodes.jmp
      THEN [kind |-> "Jmp", flags |-> left_param, dst |-> right_param]
    ELSE IF opcode = opcodes.add
      THEN [kind |-> "Add", dst |-> left_param, src |-> right_param]
    ELSE NoInstr

\* (mutant) a decoder that reads opcode, left and right at positions 0, 1, 2
from_bytes_fixed_layout(instruction_bytes, indices, opcodes) ==
    IF Len(instruction_bytes) # InstrLen THEN NoInstr
    ELSE match_opcode(instruction_bytes[1], instruction_bytes[2],
                      instruction_bytes[3], opcodes)

\* (mutant) a decoder that takes the left operand for the right one
from_bytes_swapped(instruction_bytes, indices, opcodes) ==
    IF Len(instruction_bytes) # InstrLen THEN NoInstr
    ELSE match_opcode(instruction_bytes[indices.opcode + 1],
                      instruction_bytes[indices.right_param + 1],
                      instruction_bytes[indices.left_param + 1], opcodes)

\* Instruction::from_bytes.  instruction_bytes is a sequence, so the byte the
\* source indexes with k is instruction_bytes[k + 1].
from_bytes(instruction_bytes, indices, opcodes) ==
    IF Len(instruction_bytes) # InstrLen THEN NoInstr
    ELSE
    LET opcode == instruction_bytes[indices.opcode + 1]
        left_param == instruction_bytes[indices.left_param + 1]
        right_param == instruction_bytes[indices.right_param + 1]
    IN  match_opcode(opcode, left_param, right_param, opcodes)

\* Emulator::parse_instruction: the decoded instruction, or InvalidInstruction
\* carrying byte 0 of the triple
parse_instruction(c, instruction_bytes) ==
    LET i == from_bytes(instruction_bytes, c.instruction_indices, c.opcodes)
    IN  IF i # NoInstr THEN [ok |-> TRUE, ins |-> i, err |-> NoError]
        ELSE [ok |-> FALSE, ins |-> NoInstr,
              err |-> InvalidInstruction(instruction_bytes[1])]

-----------------------------------------------------------------------------
(* The execution engine (emulator.rs). *)

\* the bare + and - of two u8 (Stk, Sys read): a build with overflow checks
\* panics when the result leaves 0..255, a build without them wraps
u8_arith(oc, v) ==
    IF v \in Byte THEN Ok(v)
    ELSE IF oc THEN Err(Panic)
    ELSE Ok(v % U8)

\* Emulator::dump_registers: the seven reads, in order, each with ?
dump_registers(c, m) ==
    LET order == <<c.registers.a, c.registers.b, c.registers.c, c.registers.d,
                   c.registers.s, c.registers.i, c.registers.f>>
        bad == {k \in 1 .. Len(order) : ~read_register(c, m, order[k]).ok}
    IN  IF bad = {} THEN Ok(0)
        ELSE LET k == CHOOSE x \in bad : \A y \in bad : x <= y
             IN  Err(read_register(c, m, order[k]).err)

\* String::push(c as char): the u8 becomes the char with that code point, and
\* the String holds its UTF-8 encoding: one byte below 0x80, two from 0x80 on
push_char(result, c) ==
    IF c < 128 THEN Append(result, c)
    ELSE result \o <<192 + (c \div 64), 128 + (c % 64)>>

\* (mutant) a scan whose offset wraps to 0 past the end of the window
RECURSIVE read_string_from_wrapping(_, _, _, _)
read_string_from_wrapping(m, current_offset, result, reads) ==
    LET ch == read_memory(m, current_offset)
    IN  IF ~ch.ok
        THEN [ok |-> FALSE, val |-> << >>, err |-> ch.err, reads |-> reads + 1]
        ELSE IF ch.val = 0
        THEN [ok |-> TRUE, val |-> result, err |-> NoError, reads |-> reads + 1]
        ELSE read_string_from_wrapping(m, (current_offset + 1) % U8,
                                       push_char(result, ch.val), reads + 1)

\* the loop of Emulator::read_string; the String is the sequence of its
\* UTF-8 bytes, reads counts the calls of read_memory made so far
RECURSIVE read_string_from(_, _, _, _)
read_string_from(m, current_offset, result, reads) ==
    LET ch == read_memory(m, current_offset)
    IN  IF ~ch.ok
        THEN [ok |-> FALSE, val |-> << >>, err |-> ch.err, reads |-> reads + 1]
        ELSE IF ch.val = 0
        THEN [ok |-> TRUE, val |-> result, err |-> NoError, reads |-> reads + 1]
        ELSE IF current_offset + 1 >= U8      \* checked_add(1) is None
        THEN [ok |-> FALSE, val |-> << >>, err |-> OtherError, reads |-> reads + 1]
        ELSE read_string_from(m, current_offset + 1,
                              push_char(result, ch.val), reads + 1)

\* Emulator::read_string
read_string(m, offset) == read_string_from(m, offset, << >>, 0)

\* Imm { dst, val }
interpret_Imm(c, m, dst, val) == write_register(c, m, dst, val)

\* (mutant) an Add that doubles src instead of adding it to dst
interpret_Add_doubles_src(c, m, dst, src) ==
    LET x == read_register(c, m, dst)
        y == read_register(c, m, src)
    IN  IF ~x.ok THEN Out(m, x)
        ELSE IF ~y.ok THEN Out(m, y)
        ELSE write_register(c, m, dst, (y.val + y.val) % U8)

\* Add { dst, src }: dst is read first, then src
interpret_Add(c, m, dst, src) ==
    LET x == read_register(c, m, dst)
        y == read_register(c, m, src)
    IN  IF ~x.ok THEN Out(m, x)
        ELSE IF ~y.ok THEN Out(m, y)
        ELSE write_register(c, m, dst, wrapping_add(x.val, y.val))

\* (mutant) a push that stores at the offset the stack pointer held before
\* the increment
stk_push_stale_offset(c, oc, m, push) ==
    LET s0 == read_register(c, m, c.registers.s)
    IN  IF ~s0.ok THEN Out(m, s0) ELSE
    LET inc == u8_arith(oc, s0.val + 1)
    IN  IF ~inc.ok THEN Out(m, inc) ELSE
    LET w1 == write_register(c, m, c.registers.s, inc.val)
    IN  IF ~w1.r.ok THEN w1 ELSE
    LET val == read_register(c, w1.mem, push)
    IN  IF ~val.ok THEN Out(w1.mem, val)
        ELSE write_memory(w1.mem, s0.val, val.val)

\* The push half of Stk (push != 0)
stk_push(c, oc, m, push) ==
    LET s0 == read_register(c, m, c.registers.s)
    IN  IF ~s0.ok THEN Out(m, s0) ELSE
    LET inc == u8_arith(oc, s0.val + 1)
    IN  IF ~inc.ok THEN Out(m, inc) ELSE
    LET w1 == write_register(c, m, c.registers.s, inc.val)
    IN  IF ~w1.r.ok THEN w1 ELSE
    LET val == read_register(c, w1.mem, push)
    IN  IF ~val.ok THEN Out(w1.mem, val) ELSE
    LET s1 == read_register(c, w1.mem, c.registers.s)
    IN  IF ~s1.ok THEN Out(w1.mem, s1)
        ELSE write_memory(w1.mem, s1.val, val.val)

\* The pop half of Stk (pop != 0)
stk_pop(c, oc, m, pop) ==
    LET s0 == read_register(c, m, c.registers.s)
    IN  IF ~s0.ok THEN Out(m, s0) ELSE
    LET val == read_memory(m, s0.val)
    IN  IF ~val.ok THEN Out(m, val) ELSE
    LET w1 == write_register(c, m, pop, val.val)
    IN  IF ~w1.r.ok THEN w1 ELSE
    LET s1 == read_register(c, w1.mem, c.registers.s)
    IN  IF ~s1.ok THEN Out(w1.mem, s1) ELSE
    LET dec1 == u8_arith(oc, s1.val - 1)
    IN  IF ~dec1.ok THEN Out(w1.mem, dec1)
        ELSE write_register(c, w1.mem, c.registers.s, dec1.val)

\* Stk { pop, push }: the push half, then the pop half
interpret_Stk(c, oc, m, pop, push) ==
    LET p == IF push # 0 THEN stk_push(c, oc, m, push) ELSE Out(m, Ok(0))
    IN  IF ~p.r.ok THEN p
        ELSE IF pop # 0 THEN stk_pop(c, oc, p.mem, pop)
        ELSE Out(p.mem, Ok(0))

\* (mutant) a Stm that takes the offset from src and the value from dst
interpret_Stm_swapped(c, m, dst, src) ==
    LET offset == read_register(c, m, src)
        v == read_register(c, m, dst)
    IN  IF ~v.ok THEN Out(m, v)
        ELSE IF ~offset.ok THEN Out(m, offset)
        ELSE write_memory(m, offset.val, v.val)

\* Stm { dst, src }
interpret_Stm(c, m, dst, src) ==
    LET offset == read_register(c, m, dst)
        v == read_register(c, m, src)
    IN  IF ~offset.ok THEN Out(m, offset)
        ELSE IF ~v.ok THEN Out(m, v)
        ELSE write_memory(m, offset.val, v.val)

\* Ldm { dst, src }
interpret_Ldm(c, m, dst, src) ==
    LET p == read_register(c, m, src)
    IN  IF ~p.ok THEN Out(m, p) ELSE
    LET val == read_memory(m, p.val)
    IN  IF ~val.ok THEN Out(m, val)
        ELSE write_register(c, m, dst, val.val)

\* (mutant) a zero test that looks at the left value alone
new_flags_zero_on_left(cmp_flags, left_value, right_value) ==
    LET f1 == IF left_value = 0 THEN BitOr(0, cmp_flags.zero) ELSE 0
        f2 == IF left_value < right_value
              THEN BitOr(f1, cmp_flags.smaller) ELSE f1
        f3 == IF left_value = right_value
              THEN BitOr(f2, cmp_flags.equals) ELSE f2
        f4 == IF left_value > right_value
              THEN BitOr(f3, cmp_flags.bigger) ELSE f3
    IN  IF left_value # right_value
        THEN BitOr(f4, cmp_flags.not_equals) ELSE f4

\* The flag byte Cmp builds from the two values read
new_flags(cmp_flags, left_value, right_value) ==
    LET f0 == 0
        f1 == IF left_value = 0 /\ right_value = 0
              THEN BitOr(f0, cmp_flags.zero) ELSE f0
        f2 == IF left_value < right_value
              THEN BitOr(f1, cmp_flags.smaller) ELSE f1
        f3 == IF left_value = right_value
              THEN BitOr(f2, cmp_flags.equals) ELSE f2
        f4 == IF left_value > right_value
              THEN BitOr(f3, cmp_flags.bigger) ELSE f3
    IN  IF left_value # right_value
        THEN BitOr(f4, cmp_flags.not_equals) ELSE f4

\* Cmp { left, right }
interpret_Cmp(c, m, left, right) ==
    LET left_value == read_register(c, m, left)
        right_value == read_register(c, m, right)
    IN  IF ~left_value.ok THEN Out(m, left_value)
        ELSE IF ~right_value.ok THEN Out(m, right_value)
        ELSE write_register(c, m, c.registers.f,
                 new_flags(c.cmp_flags, left_value.val, right_value.val))

\* whether Jmp { flags, .. } is taken, given the flags register read
jmp_taken(flags, f) == flags = 0 \/ BitAnd(f, flags) # 0

\* (mutant) a Jmp that consumes the flags: a taken jump also clears f
interpret_Jmp_clears_flags(c, m, flags, dst) ==
    LET f == IF flags = 0 THEN Ok(0) ELSE read_register(c, m, c.registers.f)
    IN  IF ~f.ok THEN Out(m, f)
        ELSE IF jmp_taken(flags, f.val)
        THEN LET d == read_register(c, m, dst)
             IN  IF ~d.ok THEN Out(m, d)
                 ELSE write_register(c, Put(m, LocF, 0), c.registers.i, d.val)
        ELSE Out(m, Ok(0))

\* Jmp { flags, dst }: f is read only when flags != 0
interpret_Jmp(c, m, flags, dst) ==
    LET f == IF flags = 0 THEN Ok(0) ELSE read_register(c, m, c.registers.f)
    IN  IF ~f.ok THEN Out(m, f)
        ELSE IF jmp_taken(flags, f.val)
        THEN LET d == read_register(c, m, dst)
             IN  IF ~d.ok THEN Out(m, d)
                 ELSE write_register(c, m, c.registers.i, d.val)
        ELSE Out(m, Ok(0))

-----------------------------------------------------------------------------
(* The syscall bridge.  What the host primitive answers is an input of the *)
(* step: h.ret is the value libc returns, h.data the bytes read(2) stored. *)

NoHost == [ret |-> 0, data |-> << >>]

Min(x, y) == IF x <= y THEN x ELSE y

\* (mutant) a clamp that lets one byte past the end of the RAM window through
clamp_bytes_one_more(n_bytes, offset) == Min(n_bytes, RamSize - offset + 1)

\* n_bytes.min(0x100 - offset)
clamp_bytes(n_bytes, offset) == Min(n_bytes, RamSize - offset)

\* &self.mem[0x300 + origin_offset..][..n_bytes]: the bytes handed to write(2)
ram_slice(m, origin_offset, n_bytes) ==
    [k \in 1 .. n_bytes |-> Get(m, RamBase + origin_offset + k - 1)]

\* the buffer the write arm hands to write(2), from the buffer m at dispatch
sys_write_buffer(c, m) ==
    LET origin_offset == read_register(c, m, c.registers.b).val
        n == read_register(c, m, c.registers.c).val
    IN  ram_slice(m, origin_offset, clamp_bytes(n, origin_offset))

\* Sys, the write arm
sys_write(c, m, dst, h) ==
    LET fd == read_register(c, m, c.registers.a)
        origin_offset == read_register(c, m, c.registers.b)
        n == read_register(c, m, c.registers.c)
    IN  IF ~fd.ok THEN Out(m, fd)
        ELSE IF ~origin_offset.ok THEN Out(m, origin_offset)
        ELSE IF ~n.ok THEN Out(m, n)
        ELSE
        LET n_bytes == clamp_bytes(n.val, origin_offset.val)
        IN  IF RamBase + origin_offset.val + n_bytes > m.len
            THEN Out(m, Err(Panic))                 \* the slice is out of range
            ELSE IF h.ret >= 0
            THEN LET w == write_register(c, m, dst, h.ret % U8)
                 IN  IF ~w.r.ok THEN w ELSE Out(w.mem, Ok(0))
            ELSE Out(m, Ok(0))

\* for i in 0..num_read { self.write_memory(dest_offset + i as u8, buffer[i])? }
RECURSIVE read_copy(_, _, _, _, _, _)
read_copy(oc, m, dest_offset, buffer, i, num_read) ==
    IF i >= num_read THEN Out(m, Ok(0))
    ELSE LET at == u8_arith(oc, dest_offset + (i % U8))
         IN  IF ~at.ok THEN Out(m, at) ELSE
             LET w == write_memory(m, at.val, buffer[i + 1])
             IN  IF ~w.r.ok THEN w
                 ELSE read_copy(oc, w.mem, dest_offset, buffer, i + 1, num_read)

\* (mutant) a read that reports the number of bytes read in dst, as write does
sys_read_memory_stores_count(c, oc, m, dst, h) ==
    LET fd == read_register(c, m, c.registers.a)
        dest_offset == read_register(c, m, c.registers.b)
        n == read_register(c, m, c.registers.c)
    IN  IF ~fd.ok THEN Out(m, fd)
        ELSE IF ~dest_offset.ok THEN Out(m, dest_offset)
        ELSE IF ~n.ok THEN Out(m, n)
        ELSE IF h.ret >= 0
             THEN LET r == read_copy(oc, m, dest_offset.val, h.data, 0, h.ret)
                  IN  IF ~r.r.ok THEN r
                      ELSE write_register(c, r.mem, dst, h.ret % U8)
             ELSE Out(m, Ok(0))

\* Sys, the read_memory arm
sys_read_memory(c, oc, m, dst, h) ==
    LET fd == read_register(c, m, c.registers.a)
        dest_offset == read_register(c, m, c.registers.b)
        n == read_register(c, m, c.registers.c)
    IN  IF ~fd.ok THEN Out(m, fd)
        ELSE IF ~dest_offset.ok THEN Out(m, dest_offset)
        ELSE IF ~n.ok THEN Out(m, n)
        ELSE IF h.ret >= 0
             THEN read_copy(oc, m, dest_offset.val, h.data, 0, h.ret)
             ELSE Out(m, Ok(0))

\* (mutant) an open that narrows the descriptor with `as u8`
sys_open_truncates(c, m, dst, h) ==
    LET a == read_register(c, m, c.registers.a)
    IN  IF ~a.ok THEN Out(m, a) ELSE
    LET path == read_string(m, a.val)
        flags == read_register(c, m, c.registers.b)
        mode == read_register(c, m, c.registers.c)
    IN  IF ~path.ok THEN Out(m, Err(path.err))
        ELSE IF ~flags.ok THEN Out(m, flags)
        ELSE IF ~mode.ok THEN Out(m, mode)
        ELSE IF h.ret < 0 THEN Out(m, Err(OtherError))
        ELSE LET w == write_register(c, m, dst, h.ret % U8)
             IN  IF ~w.r.ok THEN w ELSE Out(w.mem, Ok(0))

\* Sys, the open arm: the descriptor goes through try_into::<u8>
sys_open(c, m, dst, h) ==
    LET a == read_register(c, m, c.registers.a)
    IN  IF ~a.ok THEN Out(m, a) ELSE
    LET path == read_string(m, a.val)
        flags == read_register(c, m, c.registers.b)
        mode == read_register(c, m, c.registers.c)
    IN  IF ~path.ok THEN Out(m, Err(path.err))
        ELSE IF ~flags.ok THEN Out(m, flags)
        ELSE IF ~mode.ok THEN Out(m, mode)
        ELSE IF h.ret \notin Byte THEN Out(m, Err(OtherError))
        ELSE LET w == write_register(c, m, dst, h.ret)
             IN  IF ~w.r.ok THEN w ELSE Out(w.mem, Ok(0))

\* Sys { num, dst }: the arms are tried in the order write, read_memory, open
interpret_Sys(c, oc, m, num, dst, h) ==
    IF num = c.syscalls.write THEN sys_write(c, m, dst, h)
    ELSE IF num = c.syscalls.read_memory THEN sys_read_memory(c, oc, m, dst, h)
    ELSE IF num = c.syscalls.open THEN sys_open(c, m, dst, h)
    ELSE Out(m, Err(InvalidSyscall(num)))

\* the match of interpret_instruction
dispatch(c, oc, m, ins, h) ==
    CASE ins.kind = "Imm" -> interpret_Imm(c, m, ins.dst, ins.val)
      [] ins.kind = "Add" -> interpret_Add(c, m, ins.dst, ins.src)
      [] ins.kind = "Stk" -> interpret_Stk(c, oc, m, ins.pop, ins.push)
      [] ins.kind = "Stm" -> interpret_Stm(c, m, ins.dst, ins.src)
      [] ins.kind = "Ldm" -> interpret_Ldm(c, m, ins.dst, ins.src)
      [] ins.kind = "Cmp" -> interpret_Cmp(c, m, ins.left, ins.right)
      [] ins.kind = "Jmp" -> interpret_Jmp(c, m, ins.flags, ins.dst)
      [] ins.kind = "Sys" -> interpret_Sys(c, oc, m, ins.num, ins.dst, h)

\* Emulator::interpret_instruction: the register dump with ?, then the match
interpret_instruction(c, oc, m, ins, h) ==
    LET d == dump_registers(c, m)
    IN  IF ~d.ok THEN Out(m, d) ELSE dispatch(c, oc, m, ins, h)

\* (mutant) a fetch of instructions five bytes apart
fetch_stride_five(m, ip) ==
    IF ip * 5 + InstrLen <= m.len
    THEN [ok |-> TRUE,
          bytes |-> [k \in 1 .. InstrLen |-> Get(m, ip * 5 + k - 1)]]
    ELSE [ok |-> FALSE, bytes |-> << >>]

\* self.mem.get(ip * 3..(ip * 3) + 3)
fetch(m, ip) ==
    IF ip * InstrLen + InstrLen <= m.len
    THEN [ok |-> TRUE,
          bytes |-> [k \in 1 .. InstrLen |-> Get(m, ip * InstrLen + k - 1)]]
    ELSE [ok |-> FALSE, bytes |-> << >>]

\* the value written back to the instruction pointer: ip is a usize, so
\* checked_add(1) cannot fail on a value read from a u8, and `as u8` truncates
incremented_ip(ip) == (ip + 1) % U8

\* Emulator::execute_next_instruction, given the host's answer h; what it
\* decoded is returned beside the outcome
execute_next_instruction(c, oc, m, h) ==
    LET ip == read_register(c, m, c.registers.i)
    IN  IF ~ip.ok THEN [out |-> Out(m, ip), ins |-> NoInstr] ELSE
    LET w == write_register(c, m, c.registers.i, incremented_ip(ip.val))
    IN  IF ~w.r.ok THEN [out |-> w, ins |-> NoInstr] ELSE
    LET instruction_bytes == fetch(w.mem, ip.val)
    IN  IF ~instruction_bytes.ok
        THEN [out |-> Out(w.mem, Err(InvalidMemoryAddress((ip.val * InstrLen) % 65536))),
              ins |-> NoInstr]
        ELSE
    LET ins == from_bytes(instruction_bytes.bytes, c.instruction_indices, c.opcodes)
    IN  IF ins = NoInstr
        THEN [out |-> Out(w.mem, Err(InvalidInstruction(instruction_bytes.bytes[1]))),
              ins |-> NoInstr]
        ELSE [out |-> interpret_instruction(c, oc, w.mem, ins, h), ins |-> ins]

-----------------------------------------------------------------------------
(* Configurations.  The opcode bytes and register identifiers are the two  *)
(* tables kept in the comment of arch.rs; masks and syscall numbers are    *)
(* session data.                                                           *)

Opcodes1 == [sys |-> 1, cmp |-> 2, stk |-> 4, ldm |-> 8,
             stm |-> 16, imm |-> 32, jmp |-> 64, add |-> 128]
Opcodes2 == [imm |-> 16, add |-> 1, stk |-> 4, stm |-> 2,
             ldm |-> 32, cmp |-> 64, jmp |-> 128, sys |-> 8]
Registers1 == [a |-> 32, b |-> 4, c |-> 16, d |-> 64,
               s |-> 1, i |-> 2, f |-> 8, none |-> REG_NONE]
Registers2 == [a |-> 1, b |-> 2, c |-> 3, d |-> 4,
               s |-> 5, i |-> 6, f |-> 7, none |-> REG_NONE]
Syscalls1 == [open |-> 2, read_memory |-> 4, write |-> 8]
\* one mask per bit
CmpFlags1 == [smaller |-> 2, bigger |-> 16, equals |-> 4,
              not_equals |-> 1, zero |-> 8]
\* masks that share bits
CmpFlags2 == [smaller |-> 3, bigger |-> 5, equals |-> 6,
              not_equals |-> 9, zero |-> 12]

Order(o, l, r) == [opcode |-> o, left_param |-> l, right_param |-> r]

\* the permutations of {0,1,2}
Orders == {Order(o, l, r) : <<o, l, r>> \in
              {<<0, 1, 2>>, <<0, 2, 1>>, <<1, 0, 2>>,
               <<1, 2, 0>>, <<2, 0, 1>>, <<2, 1, 0>>}}

VMConsts(ops, regs, order, flags) ==
    [opcodes |-> ops, syscalls |-> Syscalls1, registers |-> regs,
     instruction_indices |-> order, cmp_flags |-> flags]

ConstsA == VMConsts(Opcodes1, Registers1, Order(0, 1, 2), CmpFlags1)
ConstsB == VMConsts(Opcodes2, Registers2, Order(2, 0, 1), CmpFlags2)
ConstsC == VMConsts(Opcodes2, Registers1, Order(0, 1, 2), CmpFlags2)

\* the seven real register identifiers of a configuration
RealRegs(c) == {c.registers.a, c.registers.b, c.registers.c, c.registers.d,
                c.registers.s, c.registers.i, c.registers.f}

\* an identifier that matches no arm of reg_to_mem_location
UnknownReg(c) ==
    CHOOSE r \in Byte : reg_to_mem_location(c.registers, r) = NoLoc

\* every shape of operand a register position can hold
Operands(c) == RealRegs(c) \cup {REG_NONE, UnknownReg(c)}

-----------------------------------------------------------------------------
(* Memory images: the Vec<u8> handed to Emulator::new.                     *)

\* the three bytes of an instruction in the layout the configuration reads
Wire(c, op, left, right) ==
    [k \in 1 .. InstrLen |->
        IF k - 1 = c.instruction_indices.opcode THEN op
        ELSE IF k - 1 = c.instruction_indices.left_param THEN left
        ELSE right]

\* the slot of each register of the bank
Slots == [a |-> LocA, b |-> LocB, c |-> LocC, d |-> LocD,
          s |-> LocS, i |-> LocI, f |-> LocF]

\* A buffer of length len: code[k] at instruction index (base + k - 1) mod 256,
\* ram[o] at RAM offset o, regs.x in the slot of x, 0 elsewhere.
Image(len, code, base, ram, regs) ==
    LET at(k, j) == ((base + k - 1) % U8) * InstrLen + j - 1
        codeAddrs == {at(k, j) : k \in DOMAIN code, j \in 1 .. InstrLen}
        ramAddrs == {RamBase + o : o \in DOMAIN ram}
        regAddrs == {Slots[x] : x \in DOMAIN Slots}
        byteAt(x) ==
            IF x \in regAddrs
            THEN regs[CHOOSE n \in DOMAIN Slots : Slots[n] = x]
            ELSE IF x \in ramAddrs THEN ram[x - RamBase]
            ELSE LET kj == CHOOSE p \in (DOMAIN code) \X (1 .. InstrLen) :
                               at(p[1], p[2]) = x
                 IN  code[kj[1]][kj[2]]
        live == {x \in codeAddrs \cup ramAddrs \cup regAddrs :
                    x < len /\ byteAt(x) # 0}
    IN  [len |-> len, data |-> [x \in live |-> byteAt(x)]]

\* the value a register holds in buffer m (0 when its slot is outside m)
Reg(m, name) == Get(m, Slots[name])
\* the byte at RAM offset o of buffer m
Ram(m, o) == Get(m, RamBase + o)

-----------------------------------------------------------------------------
(* Bounds of the model. *)

MaxSteps == 3        \* calls made on one emulator
MaxHostBytes == 2    \* longest partial transfer the host is let to report
MaxCalls == 2        \* accessor calls made on one emulator

-----------------------------------------------------------------------------
(* The state after Emulator::new(mem, consts), and the step.               *)

NoDec == [bytes |-> << >>, by |-> "none", out |-> NoInstr, res |-> Ok(0)]

\* Emulator::new
New(c, m) ==
    /\ consts = c
    /\ mem = m
    /\ overflow_checks \in BOOLEAN
    /\ hist = << >>
    /\ dec = NoDec

\* the record of one call
Called(name, x, y, ins, h, r) ==
    [call |-> name, x |-> x, y |-> y, pre |-> mem, instr |-> ins,
     host |-> h, res |-> r]

\* the thread of the emulator has panicked
Panicked == hist # << >> /\ hist[Len(hist)].res.err = Panic

\* the length of a buffer that just holds the register bank
BankEnd == LocF + 1

OpenAnswers == {0 - 1, 0, 3, 255, 256}
HostBytes == {0, 65}

\* what the host may answer to the syscall the next step makes, if any
HostAnswers(c, m) ==
    LET ins == execute_next_instruction(c, FALSE, m, NoHost).ins
        n == clamp_bytes(Reg(m, "c"), Reg(m, "b"))
        counts == {k \in 0 .. n : k <= MaxHostBytes \/ k = n}
    IN  IF ins.kind # "Sys" THEN {NoHost}
        ELSE IF ins.num = c.syscalls.write
          THEN {[ret |-> r, data |-> << >>] : r \in {0 - 1} \cup counts}
        ELSE IF ins.num = c.syscalls.read_memory
          THEN {[ret |-> 0 - 1, data |-> << >>]} \cup
               {[ret |-> r, data |-> [k \in 1 .. r |-> (b + k - 1) % U8]] :
                    r \in counts, b \in HostBytes}
        ELSE IF ins.num = c.syscalls.open
          THEN {[ret |-> r, data |-> << >>] : r \in OpenAnswers}
        ELSE {NoHost}

\* one call of execute_next_instruction; a thread that panicked makes no call
Step ==
    /\ Len(hist) < MaxSteps
    /\ ~Panicked
    /\ \E h \in HostAnswers(consts, mem) :
         LET e == execute_next_instruction(consts, overflow_checks, mem, h)
         IN  /\ mem' = e.out.mem
             /\ hist' = Append(hist, Called("step", 0, 0, e.ins, h, e.out.r))
    /\ UNCHANGED <<consts, overflow_checks, dec>>

Next == Step

-----------------------------------------------------------------------------
(* Spec: short programs over a palette of instructions.                    *)

NoRam == << >>

\* register values by name, i being the index the program starts at
Regs(a, b, c, d, s, i, f) ==
    [a |-> a, b |-> b, c |-> c, d |-> d, s |-> s, i |-> i, f |-> f]

\* IMM a 5, IMM b 3, ADD a b
SumProgram(c) ==
    <<Wire(c, c.opcodes.imm, c.registers.a, 5),
      Wire(c, c.opcodes.imm, c.registers.b, 3),
      Wire(c, c.opcodes.add, c.registers.a, c.registers.b)>>

Palette(c) ==
    {Wire(c, c.opcodes.imm, c.registers.a, 5),
     Wire(c, c.opcodes.add, c.registers.a, c.registers.b),
     Wire(c, c.opcodes.stk, REG_NONE, c.registers.a),
     Wire(c, c.opcodes.stk, c.registers.b, REG_NONE),
     Wire(c, c.opcodes.cmp, c.registers.a, c.registers.b),
     Wire(c, c.opcodes.jmp, 0, c.registers.d),
     Wire(c, c.opcodes.stm, c.registers.a, c.registers.b),
     Wire(c, c.opcodes.ldm, c.registers.b, c.registers.a),
     Wire(c, c.opcodes.sys, c.syscalls.write, c.registers.d),
     Wire(c, c.opcodes.sys, c.syscalls.read_memory, c.registers.d),
     Wire(c, c.opcodes.sys, c.syscalls.open, c.registers.d),
     <<0, 0, 0>>}

Programs(c) == {SumProgram(c)} \cup {<<p, q>> : p, q \in Palette(c)}

Init ==
    \E c \in {ConstsA, ConstsB, ConstsC} :
    \E code \in Programs(c) :
    \E len \in {LocF, BankEnd}, base \in {0, 255} :
    \E a \in {5, 250}, s \in {0, 16, 255} :
        New(c, Image(len, code, base, NoRam, Regs(a, 10, 2, 0, s, base, 0)))

Spec == Init /\ [][Next]_vars

-----------------------------------------------------------------------------
(* SpecAdd: one Add with every shape of operand.                           *)

InitAdd ==
    \E c \in {ConstsA, ConstsB} :
    \E dst \in Operands(c), src \in Operands(c) :
    \E base \in {0, 255} :
    \E a \in {0, 5, 250, 255}, b \in {1, 10, 255} :
        New(c, Image(BankEnd, <<Wire(c, c.opcodes.add, dst, src)>>, base,
                     NoRam, Regs(a, b, 7, 128, 200, base, 85)))

SpecAdd == InitAdd /\ [][Next]_vars

-----------------------------------------------------------------------------
(* SpecCmp: one Cmp, with every pair of values in a and b, and with every  *)
(* shape of operand.                                                       *)

InitCmp ==
    \/ \E a \in Byte, b \in Byte :
         New(ConstsB, Image(BankEnd,
                 <<Wire(ConstsB, ConstsB.opcodes.cmp,
                        ConstsB.registers.a, ConstsB.registers.b)>>,
                 0, NoRam, Regs(a, b, 0, 0, 0, 0, 255)))
    \/ \E c \in {ConstsA, ConstsB} :
       \E left \in Operands(c), right \in Operands(c) :
       \E base \in {0, 255} :
       \E a \in {0, 5, 255}, b \in {0, 5, 7}, f \in {0, 255} :
         New(c, Image(BankEnd, <<Wire(c, c.opcodes.cmp, left, right)>>, base,
                      NoRam, Regs(a, b, 7, 0, 200, base, f)))

SpecCmp == InitCmp /\ [][Next]_vars

-----------------------------------------------------------------------------
(* SpecJmp: one Jmp with every shape of destination, over several masks    *)
(* and flag bytes, in a buffer that ends after the bank or holds 0xffff.   *)

InitJmp ==
    \E c \in {ConstsA, ConstsB} :
    \E flags \in {0, 1, 4, 6, 255}, dst \in Operands(c) :
    \E len \in {BankEnd, LocNone + 1}, base \in {0, 7, 255} :
    \E f \in {0, 1, 4, 8, 255} :
        New(c, Image(len, <<Wire(c, c.opcodes.jmp, flags, dst)>>, base,
                     NoRam, Regs(5, 10, 7, 128, 200, base, f)))

SpecJmp == InitJmp /\ [][Next]_vars

-----------------------------------------------------------------------------
(* SpecStk: one Stk with every shape of operand, and a push followed by a  *)
(* pop for every pair of real registers, from stack pointers at both ends  *)
(* of the RAM window.                                                      *)

StkPrograms(c) ==
    {<<Wire(c, c.opcodes.stk, pop, push)>> :
        pop \in Operands(c), push \in Operands(c)} \cup
    {<<Wire(c, c.opcodes.stk, REG_NONE, x), Wire(c, c.opcodes.stk, y, REG_NONE)>> :
        x \in RealRegs(c), y \in RealRegs(c)}

StkRam == (0 :> 99) @@ (1 :> 98) @@ (17 :> 97) @@ (255 :> 96)

InitStk ==
    \E c \in {ConstsA, ConstsB} :
    \E code \in StkPrograms(c) :
    \E base \in {0, 255} :
    \E a \in {0, 5}, s \in {0, 16, 254, 255} :
        New(c, Image(BankEnd, code, base, StkRam,
                     Regs(a, 10, 7, 128, s, base, 85)))

SpecStk == InitStk /\ [][Next]_vars

-----------------------------------------------------------------------------
(* SpecAccess: the six accessors, called by the owner of the emulator on   *)
(* buffers of several lengths.                                             *)

ReadRegister ==
    /\ Len(hist) < MaxCalls
    /\ \E register \in Operands(consts) :
         hist' = Append(hist, Called("read_register", register, 0, NoInstr,
                                     NoHost, read_register(consts, mem, register)))
    /\ UNCHANGED <<consts, mem, overflow_checks, dec>>

WriteRegister ==
    /\ Len(hist) < MaxCalls
    /\ \E register \in Operands(consts), val \in {7} :
         LET w == write_register(consts, mem, register, val)
         IN  /\ mem' = w.mem
             /\ hist' = Append(hist, Called("write_register", register, val,
                                            NoInstr, NoHost, w.r))
    /\ UNCHANGED <<consts, overflow_checks, dec>>

ReadMemory ==
    /\ Len(hist) < MaxCalls
    /\ \E location \in {0, 16, 255} :
         hist' = Append(hist, Called("read_memory", location, 0, NoInstr,
                                     NoHost, read_memory(mem, location)))
    /\ UNCHANGED <<consts, mem, overflow_checks, dec>>

WriteMemory ==
    /\ Len(hist) < MaxCalls
    /\ \E location \in {0, 16, 255}, val \in {7} :
         LET w == write_memory(mem, location, val)
         IN  /\ mem' = w.mem
             /\ hist' = Append(hist, Called("write_memory", location, val,
                                            NoInstr, NoHost, w.r))
    /\ UNCHANGED <<consts, overflow_checks, dec>>

\* addresses around the end of buffer m, as u16
RawLocations(m) == {m.len - 1, m.len, LocNone} \cap (0 .. LocNone)

ReadMemoryRaw ==
    /\ Len(hist) < MaxCalls
    /\ \E location \in RawLocations(mem) :
         hist' = Append(hist, Called("read_memory_raw", location, 0, NoInstr,
                                     NoHost, read_memory_raw(mem, location)))
    /\ UNCHANGED <<consts, mem, overflow_checks, dec>>

WriteMemoryRaw ==
    /\ Len(hist) < MaxCalls
    /\ \E location \in RawLocations(mem), val \in {7} :
         LET w == write_memory_raw(mem, location, val)
         IN  /\ mem' = w.mem
             /\ hist' = Append(hist, Called("write_memory_raw", location, val,
                                            NoInstr, NoHost, w.r))
    /\ UNCHANGED <<consts, overflow_checks, dec>>

NextAccess ==
    \/ ReadRegister
    \/ WriteRegister
    \/ ReadMemory
    \/ WriteMemory
    \/ ReadMemoryRaw
    \/ WriteMemoryRaw

InitAccess ==
    \E len \in {0, RamBase + 16, LocS, BankEnd, LocNone, LocNone + 1} :
        New(ConstsA, Image(len, SumProgram(ConstsA), 0, StkRam,
                           Regs(5, 10, 7, 128, 200, 0, 85)))

SpecAccess == InitAccess /\ [][NextAccess]_vars

-----------------------------------------------------------------------------
(* SpecDecode: the decoder on byte triples, under every field order and    *)
(* both opcode tables: called directly, through parse_instruction, and by  *)
(* a step that fetches the triple at index 0.                              *)

DecodeBytes == {0, 1, 2, 4, 8, 16, 32, 64, 128, 255}

Decode ==
    /\ dec.by = "none"
    /\ dec' = [dec EXCEPT !.by = "from_bytes",
                          !.out = from_bytes(dec.bytes, consts.instruction_indices,
                                             consts.opcodes)]
    /\ UNCHANGED <<consts, mem, overflow_checks, hist>>

ParseInstruction ==
    /\ dec.by = "none"
    /\ Len(dec.bytes) = InstrLen
    /\ LET p == parse_instruction(consts, dec.bytes)
       IN  dec' = [dec EXCEPT !.by = "parse_instruction", !.out = p.ins,
                              !.res = [ok |-> p.ok, val |-> 0, err |-> p.err]]
    /\ UNCHANGED <<consts, mem, overflow_checks, hist>>

NextDecode == Decode \/ ParseInstruction \/ Step

InitDecode ==
    \E ops \in {Opcodes1, Opcodes2}, order \in Orders :
    \E bytes \in (DecodeBytes \X DecodeBytes \X DecodeBytes)
                 \cup {<<1, 2>>, <<1, 2, 4, 8>>} :
        /\ consts = VMConsts(ops, Registers1, order, CmpFlags1)
        /\ mem = Image(BankEnd, IF Len(bytes) = InstrLen THEN <<bytes>> ELSE << >>,
                       0, NoRam, Regs(5, 10, 7, 128, 200, 0, 85))
        /\ overflow_checks \in BOOLEAN
        /\ hist = << >>
        /\ dec = [NoDec EXCEPT !.bytes = bytes]

SpecDecode == InitDecode /\ [][NextDecode]_vars

-----------------------------------------------------------------------------
(* Vocabulary of the properties.                                           *)

\* the last call made
Last == hist[Len(hist)]
\* the last call was a step that decoded an instruction of kind k
Ran(k) == hist # << >> /\ Last.call = "step" /\ Last.instr.kind = k
\* the buffer as the instruction of step h finds it at dispatch: the buffer
\* before the step with the instruction pointer already advanced
AtDispatch(h) == Put(h.pre, LocI, (Reg(h.pre, "i") + 1) % U8)
\* the value held by the register with identifier r in buffer m
Val(m, r) == Get(m, reg_to_mem_location(consts.registers, r))
\* the register bank is inside buffer m
HasBank(m) == m.len >= BankEnd
RegNames == {"a", "b", "c", "d", "s", "i", "f"}

-----------------------------------------------------------------------------
\* C1: with the 9-byte image IMM a 5, IMM b 3, ADD a b at address 0, field
\* order (opcode, left, right) and the instruction pointer at 0, the first
\* three steps all succeed and leave register a = 8 and the instruction
\* pointer = 3.
SumImage(m) ==
    /\ consts.instruction_indices = Order(0, 1, 2)
    /\ HasBank(m)
    /\ Reg(m, "i") = 0
    /\ <<Get(m, 0), Get(m, 1), Get(m, 2)>> =
           <<consts.opcodes.imm, consts.registers.a, 5>>
    /\ <<Get(m, 3), Get(m, 4), Get(m, 5)>> =
           <<consts.opcodes.imm, consts.registers.b, 3>>
    /\ <<Get(m, 6), Get(m, 7), Get(m, 8)>> =
           <<consts.opcodes.add, consts.registers.a, consts.registers.b>>

C1_SumProgram ==
    (hist # << >> /\ SumImage(hist[1].pre)) =>
        /\ \A k \in 1 .. Len(hist) :
              k <= 3 => (hist[k].call = "step" /\ hist[k].res.ok)
        /\ Len(hist) >= 3 =>
              LET after == IF Len(hist) = 3 THEN mem ELSE hist[4].pre
              IN  Reg(after, "a") = 8 /\ Reg(after, "i") = 3

C1_Witness ==
    /\ Len(hist) = 3
    /\ SumImage(hist[1].pre)
    /\ Last.instr.kind = "Add"
    /\ Reg(mem, "a") = 8

-----------------------------------------------------------------------------
\* C9: a step that starts with the instruction pointer at 255 fails with
\* OtherError instead of storing a wrapped instruction pointer and going on.
C9_IpOverflowFails ==
    (hist # << >> /\ Last.call = "step" /\ HasBank(Last.pre)
        /\ Reg(Last.pre, "i") = 255) =>
        (Last.res = Err(OtherError) /\ Reg(mem, "i") = 255)

-----------------------------------------------------------------------------
\* C2: a Cmp { left, right } that reads the values l and r overwrites the
\* flags register with exactly the OR of the configured masks whose condition
\* holds for (l, r): exactly one of smaller, bigger, equal holds, not-equal
\* holds iff equal does not, zero holds iff l = 0 and r = 0; nothing of the
\* previous flags survives.  (l and r are the values the two operands hold at
\* dispatch.)
Bit(x, k) == (x \div (2 ^ k)) % 2

\* the masks whose condition holds for (l, r)
MasksHolding(l, r) ==
    LET conds == {[mask |-> consts.cmp_flags.smaller, holds |-> l < r],
                  [mask |-> consts.cmp_flags.bigger, holds |-> l > r],
                  [mask |-> consts.cmp_flags.equals, holds |-> l = r],
                  [mask |-> consts.cmp_flags.not_equals, holds |-> l # r],
                  [mask |-> consts.cmp_flags.zero, holds |-> l = 0 /\ r = 0]}
    IN  {cd.mask : cd \in {x \in conds : x.holds}}

C2_CmpTotality ==
    (Ran("Cmp") /\ Last.instr.left \in RealRegs(consts)
                /\ Last.instr.right \in RealRegs(consts)) =>
        LET l == Val(AtDispatch(Last), Last.instr.left)
            r == Val(AtDispatch(Last), Last.instr.right)
        IN  /\ Last.res.ok
            /\ Cardinality({x \in {"smaller", "bigger", "equal"} :
                    \/ (x = "smaller" /\ l < r)
                    \/ (x = "bigger" /\ l > r)
                    \/ (x = "equal" /\ l = r)}) = 1
            /\ \A k \in 0 .. 7 :
                 Bit(Reg(mem, "f"), k) = 1 <=>
                     \E mask \in MasksHolding(l, r) : Bit(mask, k) = 1

C2_Witness ==
    /\ Ran("Cmp")
    /\ Last.instr.left = consts.registers.a
    /\ Last.instr.right = consts.registers.b
    /\ Reg(Last.pre, "a") = 0 /\ Reg(Last.pre, "b") = 0
    /\ Reg(Last.pre, "f") = 255
    /\ Reg(mem, "f") = BitOr(consts.cmp_flags.zero, consts.cmp_flags.equals)

-----------------------------------------------------------------------------
\* C5: an Add { dst, src } on two real registers never fails, whatever the
\* carry, and leaves dst = (old dst + old src) mod 256 (250 + 10 gives 4; with
\* dst = src, twice the old value mod 256); no register other than dst and
\* the instruction pointer changes.  (old dst and old src are the values the
\* operands hold at dispatch.)
C5_AddWraps ==
    (Ran("Add") /\ Last.instr.dst \in RealRegs(consts)
                /\ Last.instr.src \in RealRegs(consts)) =>
        LET x == Val(AtDispatch(Last), Last.instr.dst)
            y == Val(AtDispatch(Last), Last.instr.src)
        IN  /\ Last.res.ok
            /\ Val(mem, Last.instr.dst) = (x + y) % U8
            /\ (x = 250 /\ y = 10) => Val(mem, Last.instr.dst) = 4
            /\ Last.instr.dst = Last.instr.src =>
                   Val(mem, Last.instr.dst) = (2 * x) % U8
            /\ \A q \in RealRegs(consts) \ {Last.instr.dst, consts.registers.i} :
                   Val(mem, q) = Val(Last.pre, q)

C5_Witness ==
    /\ Ran("Add")
    /\ Last.instr.dst = consts.registers.a
    /\ Last.instr.src = consts.registers.b
    /\ Reg(Last.pre, "a") = 250 /\ Reg(Last.pre, "b") = 10
    /\ Reg(mem, "a") = 4

-----------------------------------------------------------------------------
\* C3: a step that executes Jmp { flags, dst } with a resolvable dst ends with
\* the instruction pointer equal to the value held in register dst if
\* flags = 0 or (f AND flags) is nonzero, and otherwise with the instruction
\* pointer equal to the old instruction pointer plus one; no other register
\* and no RAM byte changes.
Taken(flags, f) == flags = 0 \/ \E k \in 0 .. 7 : Bit(f, k) = 1 /\ Bit(flags, k) = 1

OnlyIpChanged(h, m) ==
    /\ \A n \in RegNames \ {"i"} : Reg(m, n) = Reg(h.pre, n)
    /\ \A o \in Byte : Ram(m, o) = Ram(h.pre, o)

C3_JmpCorrectness ==
    (Ran("Jmp") /\ HasBank(Last.pre)
        /\ read_register(consts, AtDispatch(Last), Last.instr.dst).ok) =>
        /\ Last.res.ok
        /\ Taken(Last.instr.flags, Reg(Last.pre, "f")) =>
               Reg(mem, "i") = Val(AtDispatch(Last), Last.instr.dst)
        /\ ~Taken(Last.instr.flags, Reg(Last.pre, "f")) =>
               Reg(mem, "i") = Reg(Last.pre, "i") + 1
        /\ OnlyIpChanged(Last, mem)

-----------------------------------------------------------------------------
\* C4: pushing a real register X and then popping into a real register Y, the
\* stack pointer s included, leaves Y equal to the value X held before the
\* push and the stack pointer equal to its value before the push, both for
\* the two instructions Stk{NONE, X}; Stk{Y, NONE} and for the single
\* instruction Stk{Y, X}.  (Stated of the steps that succeed; the value X held
\* is the one at dispatch.)
RoundTrip(Xs, Ys) ==
    /\ (Ran("Stk") /\ Last.res.ok
          /\ Last.instr.push \in Xs /\ Last.instr.pop \in Ys) =>
        /\ Val(mem, Last.instr.pop) = Val(AtDispatch(Last), Last.instr.push)
        /\ Reg(mem, "s") = Reg(Last.pre, "s")
    /\ (Ran("Stk") /\ Last.res.ok /\ Len(hist) >= 2
          /\ Last.instr.push = REG_NONE /\ Last.instr.pop \in Ys) =>
        LET first == hist[Len(hist) - 1]
        IN  (first.call = "step" /\ first.instr.kind = "Stk" /\ first.res.ok
               /\ first.instr.pop = REG_NONE /\ first.instr.push \in Xs) =>
            /\ Val(mem, Last.instr.pop) = Val(AtDispatch(first), first.instr.push)
            /\ Reg(mem, "s") = Reg(first.pre, "s")

-----------------------------------------------------------------------------
\* C10: a push with the stack pointer at 255 sets it to 0 and stores the
\* pushed value at RAM offset 0, and a pop with the stack pointer at 0 reads
\* RAM offset 0 and sets it to 255; neither fails or aborts.
C10_StackPointerWraps ==
    /\ (Ran("Stk") /\ HasBank(Last.pre) /\ Reg(Last.pre, "s") = 255
          /\ Last.instr.pop = REG_NONE
          /\ Last.instr.push \in RealRegs(consts) \ {consts.registers.s}) =>
        /\ Last.res.ok
        /\ Reg(mem, "s") = 0
        /\ Ram(mem, 0) = Val(AtDispatch(Last), Last.instr.push)
    /\ (Ran("Stk") /\ HasBank(Last.pre) /\ Reg(Last.pre, "s") = 0
          /\ Last.instr.push = REG_NONE
          /\ Last.instr.pop \in RealRegs(consts) \ {consts.registers.s}) =>
        /\ Last.res.ok
        /\ Reg(mem, "s") = 255
        /\ Val(mem, Last.instr.pop) = Ram(Last.pre, 0)

-----------------------------------------------------------------------------
\* C6: a call of read_register, write_register, read_memory, write_memory,
\* read_memory_raw or write_memory_raw whose resolved address is not below the
\* buffer length returns InvalidMemoryAddress carrying that address and leaves
\* the buffer, bytes and length, unchanged.
Accessors == {"read_register", "write_register", "read_memory",
              "write_memory", "read_memory_raw", "write_memory_raw"}

\* the address a call resolves to (NoLoc for an unknown register)
Resolved(h) ==
    IF h.call \in {"read_register", "write_register"}
      THEN reg_to_mem_location(consts.registers, h.x)
    ELSE IF h.call \in {"read_memory", "write_memory"} THEN RamBase + h.x
    ELSE h.x

C6_BoundsSafety ==
    (hist # << >> /\ Last.call \in Accessors
        /\ Resolved(Last) # NoLoc /\ Resolved(Last) >= Last.pre.len) =>
        /\ Last.res = Err(InvalidMemoryAddress(Resolved(Last)))
        /\ mem = Last.pre

\* a raw write at the first address past the end of a buffer that holds data
C6_Witness ==
    /\ hist # << >>
    /\ Last.call = "write_memory_raw"
    /\ Last.x = Last.pre.len
    /\ Last.pre.len > 0
    /\ Last.res = Err(InvalidMemoryAddress(Last.x))
    /\ mem = Last.pre

-----------------------------------------------------------------------------
\* C7: moving the three bytes and the field order by the same rearrangement
\* of positions, so that opcode, left and right bytes keep their values at
\* their new positions, gives the identical decoded instruction or the
\* identical failure, for every triple, field order and opcode table.
Positions == 0 .. (InstrLen - 1)
Rearrangements ==
    {p \in [Positions -> Positions] : \A x, y \in Positions : p[x] = p[y] => x = y}

\* the byte at position q goes to position p[q]
MovedBytes(bytes, p) ==
    [k \in 1 .. InstrLen |-> bytes[(CHOOSE q \in Positions : p[q] = k - 1) + 1]]
MovedOrder(order, p) ==
    Order(p[order.opcode], p[order.left_param], p[order.right_param])

C7_DecodeEquivariant ==
    (dec.by = "from_bytes" /\ Len(dec.bytes) = InstrLen) =>
        \A p \in Rearrangements :
            from_bytes(MovedBytes(dec.bytes, p),
                       MovedOrder(consts.instruction_indices, p),
                       consts.opcodes) = dec.out

\* a triple that decodes to an instruction under an order that is not (0,1,2)
C7_Witness ==
    /\ dec.by = "from_bytes"
    /\ consts.instruction_indices = Order(2, 0, 1)
    /\ dec.bytes = <<1, 2, 32>>
    /\ dec.out.kind # "None"

-----------------------------------------------------------------------------
\* C8: with eight pairwise distinct opcode bytes, from_bytes on a 3-byte input
\* returns the instruction of kind K carrying (left byte, right byte) exactly
\* when the byte at the opcode position is the opcode of K, and None exactly
\* when that byte is none of the eight; the engine surfaces None as
\* InvalidInstruction.
KindOpcode(ops) ==
    [Sys |-> ops.sys, Cmp |-> ops.cmp, Stk |-> ops.stk, Ldm |-> ops.ldm,
     Stm |-> ops.stm, Imm |-> ops.imm, Jmp |-> ops.jmp, Add |-> ops.add]
Kinds == {"Sys", "Cmp", "Stk", "Ldm", "Stm", "Imm", "Jmp", "Add"}

\* the instruction of kind K with operands (l, r), by the fields of the enum
InstrOf(K, l, r) ==
    CASE K = "Sys" -> [kind |-> "Sys", num |-> l, dst |-> r]
      [] K = "Cmp" -> [kind |-> "Cmp", left |-> l, right |-> r]
      [] K = "Stk" -> [kind |-> "Stk", pop |-> l, push |-> r]
      [] K = "Ldm" -> [kind |-> "Ldm", dst |-> l, src |-> r]
      [] K = "Stm" -> [kind |-> "Stm", dst |-> l, src |-> r]
      [] K = "Imm" -> [kind |-> "Imm", dst |-> l, val |-> r]
      [] K = "Jmp" -> [kind |-> "Jmp", flags |-> l, dst |-> r]
      [] K = "Add" -> [kind |-> "Add", dst |-> l, src |-> r]

DistinctOpcodes(ops) ==
    \A j, k \in Kinds : KindOpcode(ops)[j] = KindOpcode(ops)[k] => j = k

\* the decoded instruction `out` is the one the triple `bytes` stands for
Matches(bytes, out) ==
    LET op == bytes[consts.instruction_indices.opcode + 1]
        l == bytes[consts.instruction_indices.left_param + 1]
        r == bytes[consts.instruction_indices.right_param + 1]
    IN  /\ \A K \in Kinds :
              out = InstrOf(K, l, r) <=> op = KindOpcode(consts.opcodes)[K]
        /\ out = NoInstr <=> \A K \in Kinds : op # KindOpcode(consts.opcodes)[K]

C8_DecodeMatching ==
    DistinctOpcodes(consts.opcodes) =>
        /\ (dec.by = "from_bytes" /\ Len(dec.bytes) = InstrLen) =>
               Matches(dec.bytes, dec.out)
        /\ dec.by = "parse_instruction" =>
               /\ Matches(dec.bytes, dec.out)
               /\ dec.res.ok <=> dec.out # NoInstr
               /\ ~dec.res.ok => dec.res.err[1] = "InvalidInstruction"
        /\ (hist # << >> /\ Last.call = "step" /\ Len(hist) = 1
              /\ Len(dec.bytes) = InstrLen) =>
               /\ Matches(dec.bytes, Last.instr)
               /\ Last.instr = NoInstr <=> Last.res.err[1] = "InvalidInstruction"

\* a step that fetched a triple whose opcode byte is no configured opcode
C8_Witness ==
    /\ hist # << >> /\ Last.call = "step" /\ Len(hist) = 1
    /\ dec.by = "from_bytes"
    /\ Len(dec.bytes) = InstrLen
    /\ dec.bytes[consts.instruction_indices.opcode + 1] = 255
    /\ consts.instruction_indices = Order(1, 2, 0)
    /\ DistinctOpcodes(consts.opcodes)
    /\ dec.out = NoInstr
    /\ Last.res.err[1] = "InvalidInstruction"

-----------------------------------------------------------------------------
(* SpecNone: one instruction of every kind with the none identifier in     *)
(* each position the engine reads as a register id, in buffers that end    *)
(* after the bank, just below 0xffff and just above it.                    *)

\* the operands of an instruction that the engine passes to read_register or
\* write_register
RegisterOperands(ins) ==
    CASE ins.kind = "Imm" -> {ins.dst}
      [] ins.kind = "Add" -> {ins.dst, ins.src}
      [] ins.kind = "Stk" -> {ins.pop, ins.push}
      [] ins.kind = "Stm" -> {ins.dst, ins.src}
      [] ins.kind = "Ldm" -> {ins.dst, ins.src}
      [] ins.kind = "Cmp" -> {ins.left, ins.right}
      [] ins.kind = "Jmp" -> {ins.dst}
      [] ins.kind = "Sys" -> {ins.dst}
      [] OTHER -> {}

NonePrograms(c) ==
    {<<Wire(c, op, l, r)>> :
        op \in {c.opcodes.add, c.opcodes.stk, c.opcodes.stm, c.opcodes.ldm,
                c.opcodes.cmp},
        l \in {REG_NONE, c.registers.d}, r \in {REG_NONE, c.registers.d}} \cup
    {<<Wire(c, c.opcodes.imm, REG_NONE, 9)>>,
     <<Wire(c, c.opcodes.jmp, 0, REG_NONE)>>,
     <<Wire(c, c.opcodes.jmp, 255, REG_NONE)>>,
     <<Wire(c, c.opcodes.sys, c.syscalls.write, REG_NONE)>>,
     <<Wire(c, c.opcodes.sys, c.syscalls.read_memory, REG_NONE)>>,
     <<Wire(c, c.opcodes.sys, c.syscalls.open, REG_NONE)>>}

InitNone ==
    \E c \in {ConstsA, ConstsB} :
    \E code \in NonePrograms(c) :
    \E len \in {BankEnd, LocNone, LocNone + 1}, top \in {0, 77} :
    \E f \in {0, 255} :
        LET m == Image(len, code, 0, NoRam, Regs(5, 10, 2, 3, 16, 0, f))
        IN  New(c, IF len > LocNone THEN Put(m, LocNone, top) ELSE m)

SpecNone == InitNone /\ [][Next]_vars

-----------------------------------------------------------------------------
\* C11: a step whose instruction has the none identifier (0) in a position
\* the engine treats as a register id never reads or writes a byte of the
\* buffer for it: it never asks for address 0xffff, never changes the byte
\* there, and its outcome does not depend on that byte.
SameButTop(m1, m2) ==
    /\ m1.len = m2.len
    /\ \A x \in (DOMAIN m1.data \cup DOMAIN m2.data) \ {LocNone} :
          Get(m1, x) = Get(m2, x)

C11_NoneNeverAccessed ==
    (hist # << >> /\ Last.call = "step" /\ Len(hist) = 1
        /\ REG_NONE \in RegisterOperands(Last.instr)) =>
        /\ Last.res # Err(InvalidMemoryAddress(LocNone))
        /\ Get(mem, LocNone) = Get(Last.pre, LocNone)
        /\ Last.pre.len > LocNone =>
             \A v \in {0, 77} :
                LET e == execute_next_instruction(consts, overflow_checks,
                             Put(Last.pre, LocNone, v), Last.host).out
                IN  e.r = Last.res /\ SameButTop(e.mem, mem)

-----------------------------------------------------------------------------
(* SpecFlags: a Cmp followed by one instruction of every kind whose        *)
(* operands name the flags register f or the register d.                   *)

\* the operand of an instruction that the engine passes to write_register
DstOperands(ins) ==
    CASE ins.kind = "Imm" -> {ins.dst}
      [] ins.kind = "Add" -> {ins.dst}
      [] ins.kind = "Ldm" -> {ins.dst}
      [] ins.kind = "Stk" -> {ins.pop}
      [] ins.kind = "Sys" -> {ins.dst}
      [] OTHER -> {}

FlagsSecond(c) ==
    UNION {{Wire(c, c.opcodes.imm, x, 9),
            Wire(c, c.opcodes.add, x, c.registers.a),
            Wire(c, c.opcodes.add, c.registers.a, x),
            Wire(c, c.opcodes.ldm, x, c.registers.a),
            Wire(c, c.opcodes.ldm, c.registers.a, x),
            Wire(c, c.opcodes.stm, x, c.registers.a),
            Wire(c, c.opcodes.stm, c.registers.a, x),
            Wire(c, c.opcodes.stk, x, REG_NONE),
            Wire(c, c.opcodes.stk, REG_NONE, x),
            Wire(c, c.opcodes.stk, x, x),
            Wire(c, c.opcodes.jmp, 0, x),
            Wire(c, c.opcodes.jmp, 255, x),
            Wire(c, c.opcodes.cmp, x, c.registers.a),
            Wire(c, c.opcodes.sys, c.syscalls.write, x),
            Wire(c, c.opcodes.sys, c.syscalls.read_memory, x),
            Wire(c, c.opcodes.sys, c.syscalls.open, x)} :
           x \in {c.registers.d, c.registers.f}}

InitFlags ==
    \E c \in {ConstsA, ConstsB} :
    \E second \in FlagsSecond(c) :
    \E a \in {0, 5}, b \in {0, 5, 7}, f \in {0, 255} :
        New(c, Image(BankEnd,
                     <<Wire(c, c.opcodes.cmp, c.registers.a, c.registers.b),
                       second>>,
                     0, StkRam, Regs(a, b, 2, 3, 16, 0, f)))

SpecFlags == InitFlags /\ [][Next]_vars

-----------------------------------------------------------------------------
\* C12: the flags register f holds a different value after a step than before
\* it only if the step executed a Cmp; every other kind of instruction,
\* whatever its operands, leaves f as it was.
C12_FlagsPersist ==
    (hist # << >> /\ Last.call = "step"
        /\ Reg(mem, "f") # Reg(Last.pre, "f")) =>
        Last.instr.kind = "Cmp"

\* C12, amended: f holds a different value after a step than before it only
\* if the step executed a Cmp or an instruction whose destination operand
\* (dst of Imm, Add, Ldm, Sys; pop of Stk) is f.
C12_FlagsPersistUnlessNamed ==
    (hist # << >> /\ Last.call = "step"
        /\ Reg(mem, "f") # Reg(Last.pre, "f")) =>
        \/ Last.instr.kind = "Cmp"
        \/ consts.registers.f \in DstOperands(Last.instr)

\* after a Cmp that set flags, an Add reading f into a ran and f still holds
\* the flags of the Cmp
C12_Witness ==
    /\ Len(hist) = 2
    /\ hist[1].instr.kind = "Cmp" /\ hist[1].res.ok
    /\ Last.instr = [kind |-> "Add", dst |-> consts.registers.a,
                     src |-> consts.registers.f]
    /\ Last.res.ok
    /\ Reg(mem, "f") = Reg(Last.pre, "f")
    /\ Reg(mem, "f") = new_flags(consts.cmp_flags, Reg(hist[1].pre, "a"),
                                 Reg(hist[1].pre, "b"))
    /\ Reg(mem, "f") # Reg(hist[1].pre, "f")

-----------------------------------------------------------------------------
(* SpecSys: one Sys instruction: write and read_memory from every offset b *)
(* with short, exact and over-long lengths c, and every syscall number     *)
(* with every shape of dst.  The RAM window holds a zero every 16 bytes.   *)

SysRam == [o \in 0 .. (RamSize - 1) |-> IF o % 16 = 15 THEN 0 ELSE (o % 250) + 1]

\* buffer m with the RAM window holding ram
WithRam(m, ram) ==
    LET window == {x \in RamBase .. (RamBase + RamSize - 1) : x < m.len}
        live == {x \in window : ram[x - RamBase] # 0}
    IN  [m EXCEPT !.data = [x \in ((DOMAIN m.data) \ window) \cup live |->
                               IF x \in window THEN ram[x - RamBase]
                               ELSE m.data[x]]]

\* lengths that fall short of, meet and pass the end of the window from b
SysLengths(b) == {0, 2, 40} \cup (IF b >= 224 THEN {RamSize - b, 255} ELSE {})

InitSys ==
    \/ \E num \in {ConstsA.syscalls.write, ConstsA.syscalls.read_memory} :
       \E b \in Byte : \E n \in SysLengths(b) :
         New(ConstsA, WithRam(Image(BankEnd,
                 <<Wire(ConstsA, ConstsA.opcodes.sys, num, ConstsA.registers.d)>>,
                 0, NoRam, Regs(5, b, n, 128, 16, 0, 85)), SysRam))
    \/ \E c \in {ConstsA, ConstsB} :
       \E num \in {c.syscalls.write, c.syscalls.read_memory, c.syscalls.open, 99} :
       \E dst \in {c.registers.d, c.registers.a, c.registers.f, UnknownReg(c)} :
       \E b \in {0, 254}, n \in {0, 3} :
         New(c, WithRam(Image(BankEnd, <<Wire(c, c.opcodes.sys, num, dst)>>,
                              0, NoRam, Regs(5, b, n, 128, 16, 0, 85)), SysRam))

SpecSys == InitSys /\ [][Next]_vars

\* the last call was a step that ran the syscall numbered num with the bank
\* in the buffer
RanSys(num) == Ran("Sys") /\ Last.instr.num = num /\ HasBank(Last.pre)
\* the buffers m1 and m2 differ at most at the addresses of set Xs
SameExcept(m1, m2, Xs) ==
    /\ m1.len = m2.len
    /\ \A x \in (DOMAIN m1.data \cup DOMAIN m2.data) \ Xs :
          Get(m1, x) = Get(m2, x)

-----------------------------------------------------------------------------
\* C13: for each of write, read and open, when the host primitive reports
\* failure (a negative return) the step returns success and changes no
\* register other than the instruction pointer and no RAM byte.
Swallowed(nums) ==
    (Ran("Sys") /\ Last.instr.num \in nums /\ HasBank(Last.pre)
        /\ Last.host.ret < 0
        /\ (Last.instr.num = consts.syscalls.open =>
               read_string(Last.pre, Reg(Last.pre, "a")).ok)) =>
        /\ Last.res.ok
        /\ mem = AtDispatch(Last)

C13_HostFailuresSwallowed ==
    Swallowed({consts.syscalls.write, consts.syscalls.read_memory,
               consts.syscalls.open})

-----------------------------------------------------------------------------
\* C14: when the host's open succeeds with descriptor d, the open syscall
\* stores d into dst and the step succeeds if d is in 0..255, and the step
\* fails with OtherError leaving dst (and the rest of the buffer) unchanged
\* if d is greater than 255; the descriptor is never truncated.  (dst is a
\* real register and the path is terminated.)
C14_DescriptorNarrowing ==
    (RanSys(consts.syscalls.open) /\ Last.host.ret >= 0
        /\ Last.instr.dst \in RealRegs(consts)
        /\ read_string(Last.pre, Reg(Last.pre, "a")).ok) =>
        IF Last.host.ret <= 255
        THEN /\ Last.res.ok
             /\ Val(mem, Last.instr.dst) = Last.host.ret
             /\ SameExcept(mem, AtDispatch(Last),
                    {reg_to_mem_location(consts.registers, Last.instr.dst)})
        ELSE /\ Last.res = Err(OtherError)
             /\ mem = AtDispatch(Last)

\* an open answered with descriptor 256
C14_Witness ==
    /\ RanSys(consts.syscalls.open)
    /\ Last.host.ret = 256
    /\ Last.instr.dst = consts.registers.d
    /\ read_string(Last.pre, Reg(Last.pre, "a")).ok
    /\ Last.res = Err(OtherError)
    /\ Reg(mem, "d") = Reg(Last.pre, "d")

-----------------------------------------------------------------------------
\* C16: for all b (offset) and c (length) the write syscall hands the host
\* exactly the RAM-window bytes at offsets b .. b + min(c, 256 - b) - 1, never
\* a byte outside the window, and on a host result n >= 0 stores n mod 256,
\* which equals n, into dst.
C16_WriteClamping ==
    (RanSys(consts.syscalls.write)) =>
        LET b == Reg(Last.pre, "b")
            n == Min(Reg(Last.pre, "c"), 256 - b)
            buffer == sys_write_buffer(consts, AtDispatch(Last))
        IN  /\ Len(buffer) = n
            /\ \A k \in 1 .. n :
                  /\ b + k - 1 <= 255
                  /\ buffer[k] = Get(Last.pre, 768 + b + k - 1)
            /\ Last.res.err # Panic
            /\ (Last.host.ret >= 0 /\ Last.instr.dst \in RealRegs(consts)) =>
                  /\ Last.res.ok
                  /\ Last.host.ret <= n
                  /\ Val(mem, Last.instr.dst) = Last.host.ret % 256
                  /\ Val(mem, Last.instr.dst) = Last.host.ret

\* a write of 255 bytes asked from offset 254 hands over the last two bytes
\* of the window and stores the count 2
C16_Witness ==
    /\ RanSys(consts.syscalls.write)
    /\ Reg(Last.pre, "b") = 254 /\ Reg(Last.pre, "c") = 255
    /\ Len(sys_write_buffer(consts, AtDispatch(Last))) = 2
    /\ Last.host.ret = 2
    /\ Last.instr.dst = consts.registers.d
    /\ Reg(mem, "d") = 2

-----------------------------------------------------------------------------
-----------------------------------------------------------------------------
\* C15: with seven pairwise distinct nonzero register identifiers,
\* read_register and write_register called with an identifier that is none of
\* the eight configured values fail with InvalidRegister carrying it and
\* leave the buffer unchanged; each real identifier resolves to its own slot
\* 0x400..0x406 (a, b, c, d, s, i, f in that order), so a write to one
\* register changes the value of no other.
DistinctRegisters(regs) ==
    /\ \A x, y \in RegNames : regs[x] = regs[y] => x = y
    /\ \A x \in RegNames : regs[x] # 0

SlotOrder == <<"a", "b", "c", "d", "s", "i", "f">>

C15_UnknownRegister ==
    (DistinctRegisters(consts.registers) /\ hist # << >>
        /\ Last.call \in {"read_register", "write_register"}) =>
        /\ Last.x \notin RealRegs(consts) \cup {consts.registers.none} =>
              /\ Last.res = Err(InvalidRegister(Last.x))
              /\ mem = Last.pre
        /\ \A k \in 1 .. 7 :
              Last.x = consts.registers[SlotOrder[k]] =>
                 /\ Resolved(Last) = 1024 + k - 1
                 /\ (Last.call = "read_register" /\ Last.res.ok) =>
                        Last.res.val = Get(Last.pre, 1024 + k - 1)
                 /\ (Last.call = "write_register" /\ Last.res.ok) =>
                        /\ Reg(mem, SlotOrder[k]) = Last.y
                        /\ \A j \in 1 .. 7 : j # k =>
                              Reg(mem, SlotOrder[j]) = Reg(Last.pre, SlotOrder[j])
                        /\ SameExcept(mem, Last.pre, {1024 + k - 1})

\* a write to an unknown register after a write to the register s
C15_Witness ==
    /\ Len(hist) = 2
    /\ hist[1].call = "write_register" /\ hist[1].x = consts.registers.s
    /\ hist[1].res.ok
    /\ Last.call = "write_register" /\ Last.x = UnknownReg(consts)
    /\ Last.res = Err(InvalidRegister(Last.x))
    /\ Reg(mem, "s") = 7 /\ Reg(mem, "a") = 5

-----------------------------------------------------------------------------
(* SpecMem: one Stm and one Ldm with every shape of operand, and a Stm     *)
(* followed by a Ldm for every choice of three real registers.             *)

MemPrograms(c) ==
    {<<Wire(c, op, dst, src)>> :
        op \in {c.opcodes.stm, c.opcodes.ldm},
        dst \in Operands(c), src \in Operands(c)} \cup
    {<<Wire(c, c.opcodes.stm, p, x), Wire(c, c.opcodes.ldm, y, p)>> :
        p \in RealRegs(c), x \in RealRegs(c), y \in RealRegs(c)}

InitMem ==
    \E c \in {ConstsA, ConstsB} :
    \E code \in MemPrograms(c) :
    \E b \in {10, 255} :
        New(c, Image(BankEnd, code, 0, StkRam, Regs(5, b, 7, 128, 17, 0, 85)))

SpecMem == InitMem /\ [][Next]_vars

-----------------------------------------------------------------------------
\* C18: Stm{dst, src} writes the value of register src to buffer address
\* 0x300 + (value of register dst) and changes no register other than the
\* instruction pointer; Ldm{dst, src} sets register dst to the byte at
\* 0x300 + (value of register src) and changes no RAM byte; so Stm{p, x}
\* followed by Ldm{y, p}, with p not modified in between, leaves y equal to
\* the value x held at the Stm.  (Operands are real registers; values are
\* those at dispatch.)
BothReal(ins) ==
    ins.dst \in RealRegs(consts) /\ ins.src \in RealRegs(consts)

C18_StoreLoad ==
    /\ (Ran("Stm") /\ HasBank(Last.pre) /\ BothReal(Last.instr)) =>
          LET d == AtDispatch(Last)
              at == 768 + Val(d, Last.instr.dst)
          IN  /\ Last.res.ok
              /\ Get(mem, at) = Val(d, Last.instr.src)
              /\ SameExcept(mem, d, {at})
              /\ at < 1024
    /\ (Ran("Ldm") /\ HasBank(Last.pre) /\ BothReal(Last.instr)) =>
          LET d == AtDispatch(Last)
              at == 768 + Val(d, Last.instr.src)
          IN  /\ Last.res.ok
              /\ Val(mem, Last.instr.dst) = Get(d, at)
              /\ SameExcept(mem, d,
                     {reg_to_mem_location(consts.registers, Last.instr.dst)})
    /\ (Ran("Ldm") /\ Len(hist) >= 2 /\ BothReal(Last.instr)) =>
          LET first == hist[Len(hist) - 1]
          IN  (first.call = "step" /\ first.instr.kind = "Stm"
                 /\ BothReal(first.instr) /\ HasBank(first.pre)
                 /\ first.instr.dst = Last.instr.src
                 /\ Val(AtDispatch(Last), Last.instr.src)
                       = Val(AtDispatch(first), first.instr.dst)) =>
              Val(mem, Last.instr.dst) = Val(AtDispatch(first), first.instr.src)

\* a = 5 stored at the offset held in b and loaded back into d
C18_Witness ==
    /\ Len(hist) = 2
    /\ hist[1].instr = [kind |-> "Stm", dst |-> consts.registers.b,
                        src |-> consts.registers.a]
    /\ Last.instr = [kind |-> "Ldm", dst |-> consts.registers.d,
                     src |-> consts.registers.b]
    /\ hist[1].res.ok /\ Last.res.ok
    /\ Reg(hist[1].pre, "b") = 255 /\ Reg(hist[1].pre, "d") = 128
    /\ Ram(hist[1].pre, 255) = 96
    /\ Ram(mem, 255) = 5 /\ Reg(mem, "d") = 5

-----------------------------------------------------------------------------
\* C19: a step executing Stk{pop, push} where push is a real register and pop
\* is a nonzero identifier that matches no configured register fails with
\* InvalidRegister, and afterwards the stack pointer is one higher (mod 256)
\* than before the step and the RAM byte at the new stack offset holds the
\* value of register push: the push is not rolled back.
C19_StkNotAtomic ==
    (Ran("Stk") /\ HasBank(Last.pre)
        /\ Last.instr.push \in RealRegs(consts)
        /\ Last.instr.pop # 0
        /\ reg_to_mem_location(consts.registers, Last.instr.pop) = NoLoc) =>
        /\ Last.res = Err(InvalidRegister(Last.instr.pop))
        /\ Reg(mem, "s") = (Reg(Last.pre, "s") + 1) % 256
        /\ Ram(mem, Reg(mem, "s")) = Val(mem, Last.instr.push)

-----------------------------------------------------------------------------
\* C20: the result of a step and the buffer it leaves are the same as they
\* would be if the register dump at the start of dispatch were omitted; the
\* trace never causes a step to fail.
C20_TraceNonEssential ==
    (hist # << >> /\ Last.call = "step" /\ Last.instr # NoInstr) =>
        LET without == dispatch(consts, overflow_checks, AtDispatch(Last),
                                Last.instr, Last.host)
        IN  /\ Last.res = without.r
            /\ mem = without.mem

-----------------------------------------------------------------------------
(* SpecString: read_string called once by the owner of the emulator, at    *)
(* every offset, on windows of ASCII bytes and of bytes from 0x80 on, with *)
(* a zero every 16 bytes below offset 240 and a tail that is terminated    *)
(* at 250, terminated at 255, or not terminated.                           *)

\* a window with zeros at offsets 15, 31, .., 239 and at those of tail
StringRam(high, tail) ==
    [o \in 0 .. (RamSize - 1) |->
        IF (o < 240 /\ o % 16 = 15) \/ o \in tail THEN 0
        ELSE IF high /\ o % 3 = 0 THEN 128 + (o % 100)
        ELSE 65 + (o % 26)]

ReadString ==
    /\ hist = << >>
    /\ \E offset \in Byte :
         LET r == read_string(mem, offset)
         IN  hist' = <<[call |-> "read_string", x |-> offset, y |-> r.reads,
                        pre |-> mem, instr |-> NoInstr, host |-> NoHost,
                        res |-> r]>>
    /\ UNCHANGED <<consts, mem, overflow_checks, dec>>

NextString == ReadString

InitString ==
    \E high \in BOOLEAN, tail \in {{250}, {255}, {}} :
    \E len \in {RamBase + 100, LocA, BankEnd} :
        New(ConstsA, WithRam(Image(len, << >>, 0, NoRam,
                                   Regs(5, 10, 7, 128, 200, 0, 85)),
                             StringRam(high, tail)))

SpecString == InitString /\ [][NextString]_vars

-----------------------------------------------------------------------------
\* C21: for every RAM-window content and every offset o in 0..255,
\* read_string(o) ends after at most 256 - o byte reads; it returns the bytes
\* at offsets o .. j-1, j being the smallest offset >= o that holds a zero,
\* if there is one, and fails with OtherError exactly when no byte at offsets
\* o .. 255 is zero; it reads nothing outside the window and leaves the
\* buffer as it was.  (The window lies inside the buffer.)
HasWindow(m) == m.len >= 1024
ZerosFrom(m, o) == {j \in o .. 255 : Ram(m, j) = 0}
\* the bytes of the window of m from offset o up to the first zero
StringBytes(m, o) ==
    LET j == CHOOSE z \in ZerosFrom(m, o) : \A y \in ZerosFrom(m, o) : z <= y
    IN  [k \in 1 .. (j - o) |-> Ram(m, o + k - 1)]

\* what holds of read_string whatever the bytes are, given how a string
\* found is to compare with the bytes scanned
ReadStringIs(same(_, _)) ==
    (hist # << >> /\ Last.call = "read_string" /\ HasWindow(Last.pre)) =>
        LET o == Last.x
        IN  /\ Last.y <= 256 - o
            /\ mem = Last.pre
            /\ ZerosFrom(Last.pre, o) # {} =>
                  /\ Last.res.ok
                  /\ same(Last.res.val, StringBytes(Last.pre, o))
                  /\ Last.y = Len(StringBytes(Last.pre, o)) + 1
            /\ ZerosFrom(Last.pre, o) = {} <=>
                  (~Last.res.ok /\ Last.res.err = OtherError)

SameBytes(str, bytes) == str = bytes

C21_ReadString == ReadStringIs(SameBytes)

\* C21, amended: the same, the string returned being the one whose characters
\* have the scanned bytes as code points: its UTF-8 bytes are the scanned
\* bytes when all of them are below 0x80, and two bytes (0xC2 or 0xC3, then
\* 0x80 + the low six bits) for every scanned byte from 0x80 on.
RECURSIVE Latin1ToUtf8(_)
Latin1ToUtf8(bytes) ==
    IF bytes = << >> THEN << >>
    ELSE LET b == Head(bytes)
         IN  (IF b <= 127 THEN <<b>>
              ELSE <<(IF b <= 191 THEN 194 ELSE 195), 128 + (b % 64)>>)
             \o Latin1ToUtf8(Tail(bytes))

SameChars(str, bytes) ==
    /\ str = Latin1ToUtf8(bytes)
    /\ (\A k \in DOMAIN bytes : bytes[k] <= 127) => str = bytes

C21_ReadStringChars == ReadStringIs(SameChars)

\* a string of ASCII bytes found, ending before the zero at offset 31
C21_Witness ==
    /\ hist # << >> /\ Last.call = "read_string" /\ HasWindow(Last.pre)
    /\ Last.x = 28
    /\ Last.res.ok
    /\ Last.res.val = <<67, 68, 69>>
    /\ Last.y = 4
    /\ mem = Last.pre

-----------------------------------------------------------------------------
(* The assembler (assembler.rs).  A &str is the sequence of its            *)
(* characters, a line the sequence of the tokens split_whitespace gives,   *)
(* and the code the sequence of its lines.                                 *)

NoByte == 0 - 1     \* Option<u8>::None, and the Err of str::parse::<u8>

AsmInvalidRegister(register, line) == <<"InvalidRegister", register, line>>
AsmInvalidOperation(operation, line) == <<"InvalidOperation", operation, line>>
AsmInvalidNumber(number, line) == <<"InvalidNumber", number, line>>
AsmInvalidNumberOfParts(lines, line) == <<"InvalidNumberOfParts", lines, line>>
AsmPanic == <<"Panic", 0, 0>>
AsmOk(v) == [ok |-> TRUE, val |-> v, err |-> <<"None", 0, 0>>]
AsmErr(e) == [ok |-> FALSE, val |-> << >>, err |-> e]

DigitOf == [c \in {"0", "1", "2", "3", "4", "5", "6", "7", "8", "9"} |->
               CASE c = "0" -> 0 [] c = "1" -> 1 [] c = "2" -> 2 [] c = "3" -> 3
                 [] c = "4" -> 4 [] c = "5" -> 5 [] c = "6" -> 6 [] c = "7" -> 7
                 [] c = "8" -> 8 [] c = "9" -> 9]

RECURSIVE DecimalValue(_, _)
DecimalValue(digits, acc) ==
    IF digits = << >> THEN acc
    ELSE DecimalValue(Tail(digits), 10 * acc + DigitOf[Head(digits)])

\* str::parse::<u8>: an optional +, then one or more decimal digits whose
\* value fits a u8
parse_u8(num) ==
    LET digits == IF num # << >> /\ Head(num) = "+" THEN Tail(num) ELSE num
    IN  IF digits = << >> \/ \E k \in DOMAIN digits : digits[k] \notin DOMAIN DigitOf
        THEN NoByte
        ELSE IF DecimalValue(digits, 0) >= U8 THEN NoByte
        ELSE DecimalValue(digits, 0)

\* parse_num
parse_num(num, line) ==
    IF parse_u8(num) # NoByte THEN AsmOk(parse_u8(num))
    ELSE AsmErr(AsmInvalidNumber(num, line))

\* Registers::reg_str_to_byte
reg_str_to_byte(registers, reg_str) ==
    CASE reg_str = <<"a">> -> registers.a
      [] reg_str = <<"b">> -> registers.b
      [] reg_str = <<"c">> -> registers.c
      [] reg_str = <<"d">> -> registers.d
      [] reg_str = <<"s">> -> registers.s
      [] reg_str = <<"i">> -> registers.i
      [] reg_str = <<"f">> -> registers.f
      [] reg_str = <<"N", "O", "N", "E">> -> 0
      [] OTHER -> NoByte

\* parse_reg
parse_reg(reg, registers, line) ==
    IF reg_str_to_byte(registers, reg) # NoByte
    THEN AsmOk(reg_str_to_byte(registers, reg))
    ELSE AsmErr(AsmInvalidRegister(reg, line))

\* the three pushes of one arm of assemble: the opcode, then the left and the
\* right operand, each with ?
push_three(result, opcode, l, r) ==
    IF ~l.ok THEN l
    ELSE IF ~r.ok THEN r
    ELSE AsmOk(result \o <<opcode, l.val, r.val>>)

\* the body of the loop of assemble for line i (0-based), whose tokens are
\* parts: the bytes so far with three more, or the error returned
assemble_line(result, parts, ctx, i) ==
    IF Len(parts) # 3 THEN AsmErr(AsmInvalidNumberOfParts(Len(parts), i))
    ELSE
    LET op == parts[1]
        left == parts[2]
        right == parts[3]
        regs == ctx.registers
    IN  CASE op = <<"S", "Y", "S">> ->
               push_three(result, ctx.opcodes.sys,
                          parse_num(left, i), parse_reg(right, regs, i))
          [] op = <<"C", "M", "P">> ->
               push_three(result, ctx.opcodes.cmp,
                          parse_reg(left, regs, i), parse_reg(right, regs, i))
          [] op = <<"S", "T", "K">> ->
               push_three(result, ctx.opcodes.stk,
                          parse_reg(left, regs, i), parse_reg(right, regs, i))
          [] op = <<"L", "D", "M">> ->
               push_three(result, ctx.opcodes.ldm,
                          parse_reg(left, regs, i), parse_reg(right, regs, i))
          [] op = <<"S", "T", "M">> ->
               push_three(result, ctx.opcodes.stm,
                          parse_reg(left, regs, i), parse_reg(right, regs, i))
          [] op = <<"I", "M", "M">> ->
               push_three(result, ctx.opcodes.imm,
                          parse_reg(left, regs, i), parse_num(right, i))
          [] op = <<"J", "M", "P">> -> AsmErr(AsmPanic)            \* todo!()
          [] op = <<"A", "D", "D">> ->
               push_three(result, ctx.opcodes.add,
                          parse_reg(left, regs, i), parse_num(right, i))
          [] OTHER -> AsmErr(AsmInvalidOperation(op, i))

RECURSIVE assemble_from(_, _, _, _)
assemble_from(code, ctx, i, result) ==
    IF i >= Len(code) THEN AsmOk(result)
    ELSE LET r == assemble_line(result, code[i + 1], ctx, i)
         IN  IF ~r.ok THEN r ELSE assemble_from(code, ctx, i + 1, r.val)

\* assemble
assemble(code, ctx) == assemble_from(code, ctx, 0, << >>)

-----------------------------------------------------------------------------
(* SpecAsm: a text of one or two lines is assembled, and the bytes are     *)
(* decoded three by three under the configuration of the session.          *)

RegTokens == {<<"a">>, <<"b">>, <<"c">>, <<"d">>, <<"s">>, <<"i">>, <<"f">>,
              <<"N", "O", "N", "E">>}
NumTokens == {<<"0">>, <<"7">>, <<"2", "5", "5">>}
BadTokens == {<<"2", "5", "6">>, <<"x">>, <<"-", "1">>}
OpTokens == {<<"S", "Y", "S">>, <<"C", "M", "P">>, <<"S", "T", "K">>,
             <<"L", "D", "M">>, <<"S", "T", "M">>, <<"I", "M", "M">>,
             <<"A", "D", "D">>}
Tokens == RegTokens \cup NumTokens \cup BadTokens

AsmLines ==
    {<<op, l, r>> : op \in OpTokens \cup {<<"J", "M", "P">>, <<"N", "O", "P">>},
                    l \in Tokens, r \in Tokens} \cup
    {<<<<"I", "M", "M">>, <<"a">>>>}

AsmFirstLines == {<<<<"I", "M", "M">>, <<"a">>, <<"7">>>>,
                  <<<<"C", "M", "P">>, <<"a">>, <<"b">>>>}

Assemble ==
    /\ dec.by = "none"
    /\ dec' = [dec EXCEPT !.by = "assemble", !.res = assemble(dec.bytes, consts)]
    /\ UNCHANGED <<consts, mem, overflow_checks, hist>>

\* the assembled bytes, loaded at address 0, as the decoder of the session
\* reads them
DecodeAssembled ==
    /\ dec.by = "assemble"
    /\ dec.res.ok
    /\ dec' = [dec EXCEPT !.by = "decoded",
                  !.out = [k \in 1 .. (Len(dec.res.val) \div InstrLen) |->
                              from_bytes(SubSeq(dec.res.val, InstrLen * k - 2,
                                                InstrLen * k),
                                         consts.instruction_indices,
                                         consts.opcodes)]]
    /\ UNCHANGED <<consts, mem, overflow_checks, hist>>

NextAsm == Assemble \/ DecodeAssembled

InitAsm ==
    \E c \in {ConstsA, ConstsB, ConstsC} :
    \E code \in {<<l>> : l \in AsmLines} \cup
                {<<f, l>> : f \in AsmFirstLines, l \in AsmLines} :
        /\ consts = c
        /\ mem = Image(BankEnd, << >>, 0, NoRam, Regs(5, 10, 7, 128, 200, 0, 85))
        /\ overflow_checks = FALSE
        /\ hist = << >>
        /\ dec = [NoDec EXCEPT !.bytes = code]

SpecAsm == InitAsm /\ [][NextAsm]_vars

-----------------------------------------------------------------------------
\* C22: for every line OPCODE LEFT RIGHT whose opcode is one of SYS, CMP,
\* STK, LDM, STM, IMM, ADD and whose operands have the form the engine
\* expects for that kind (a register mnemonic where it reads a register id,
\* a decimal literal in 0..255 where it reads a literal), assemble succeeds
\* and appends the three bytes (opcode, left, right), which decode, with
\* field order (0, 1, 2), to the instruction of that kind with those
\* operands; the output is 3 bytes per line.
KindOfOp(op) ==
    CASE op = <<"S", "Y", "S">> -> "Sys" [] op = <<"C", "M", "P">> -> "Cmp"
      [] op = <<"S", "T", "K">> -> "Stk" [] op = <<"L", "D", "M">> -> "Ldm"
      [] op = <<"S", "T", "M">> -> "Stm" [] op = <<"I", "M", "M">> -> "Imm"
      [] op = <<"A", "D", "D">> -> "Add"

\* where the engine reads a literal: the syscall number and the value of Imm
LiteralLeft(K) == K = "Sys"
LiteralRight(K) == K = "Imm"

WellFormedFor(ops, line) ==
    /\ Len(line) = 3
    /\ line[1] \in ops
    /\ line[2] \in (IF LiteralLeft(KindOfOp(line[1])) THEN NumTokens ELSE RegTokens)
    /\ line[3] \in (IF LiteralRight(KindOfOp(line[1])) THEN NumTokens ELSE RegTokens)

\* the byte an operand token stands for
TokenByte(tok) ==
    CASE tok = <<"0">> -> 0
      [] tok = <<"7">> -> 7
      [] tok = <<"2", "5", "5">> -> 255
      [] tok = <<"N", "O", "N", "E">> -> 0
      [] OTHER -> consts.registers[tok[1]]

Agreement(ops) ==
    (dec.by \in {"assemble", "decoded"}
        /\ \A n \in DOMAIN dec.bytes : WellFormedFor(ops, dec.bytes[n])) =>
        /\ dec.res.ok
        /\ Len(dec.res.val) = 3 * Len(dec.bytes)
        /\ \A n \in DOMAIN dec.bytes :
              LET line == dec.bytes[n]
                  K == KindOfOp(line[1])
              IN  /\ SubSeq(dec.res.val, 3 * n - 2, 3 * n) =
                        <<KindOpcode(consts.opcodes)[K],
                          TokenByte(line[2]), TokenByte(line[3])>>
                  /\ (dec.by = "decoded"
                        /\ consts.instruction_indices = Order(0, 1, 2)) =>
                        dec.out[n] = InstrOf(K, TokenByte(line[2]),
                                             TokenByte(line[3]))

C22_AssemblerDecoderAgree == Agreement(OpTokens)

-----------------------------------------------------------------------------
(* SpecWrites: the programs of Spec, SpecNone, SpecSys and SpecMem         *)
(* together: every kind of instruction, every shape of operand, buffers    *)
(* that end inside the bank, after it, and at 0xffff or after it.          *)

InitWrites == Init \/ InitNone \/ InitSys \/ InitMem

SpecWrites == InitWrites /\ [][Next]_vars

\* C23: over any sequence of steps, with any instructions, host results and
\* buffer length, no byte of the buffer at an address below 0x300 ever
\* changes and no byte above 0x406 other than 0xffff ever changes: every
\* write lands in the RAM window 0x300..0x3ff, in the register bank
\* 0x400..0x406 or at 0xffff; and the length of the buffer never changes.
Writable(x) ==
    \/ x >= RamBase /\ x < RamBase + RamSize
    \/ x >= LocA /\ x <= LocF
    \/ x = LocNone

Changed(m1, m2) ==
    {x \in (DOMAIN m1.data) \cup (DOMAIN m2.data) : Get(m1, x) # Get(m2, x)}

C23_CodeImmutable ==
    hist # << >> =>
        /\ mem.len = hist[1].pre.len
        /\ mem.len = Last.pre.len
        /\ \A x \in Changed(hist[1].pre, mem) \cup Changed(Last.pre, mem) :
              Writable(x)

\* a step has written into the RAM window of a buffer that holds code
C23_Witness ==
    /\ hist # << >>
    /\ Last.call = "step"
    /\ Last.res.ok
    /\ \E x \in Changed(Last.pre, mem) : x >= RamBase /\ x < RamBase + RamSize
    /\ \E x \in DOMAIN mem.data : x < RamBase

-----------------------------------------------------------------------------
(* SpecFetch: one instruction at every value of the instruction pointer,   *)
(* in buffers that end before, inside and after the code region, inside    *)
(* and after the bank, and after 0xffff; the RAM window is filled.         *)

FetchLengths == {0, 2, RamBase, LocI, LocI + 1, BankEnd, LocNone + 1}

FetchPrograms(c) ==
    {<<Wire(c, c.opcodes.imm, c.registers.a, 5)>>,
     <<Wire(c, c.opcodes.stm, c.registers.a, c.registers.b)>>,
     <<<<255, 255, 255>>>>,
     <<<<255, 255, 255>>, Wire(c, c.opcodes.imm, c.registers.a, 5)>>}

InitFetch ==
    \E c \in {ConstsA, ConstsB} :
    \E code \in FetchPrograms(c) :
    \E len \in FetchLengths, ip \in Byte :
        New(c, WithRam(Image(len, code, ip, NoRam,
                             Regs(5, 10, 7, 128, 200, ip, 85)), SysRam))

SpecFetch == InitFetch /\ [][Next]_vars

\* C24: for every buffer length and every value ip of the instruction
\* pointer, if a step reads the instruction-pointer register and writes it
\* back successfully, then the three bytes it fetches are those at
\* 3*ip .. 3*ip+2, inside the buffer and strictly below 0x300: the step
\* never returns the address-out-of-range error of the fetch, and what it
\* decodes never comes from the RAM window or the register bank.
C24_FetchNeverFails ==
    (hist # << >> /\ Last.call = "step"
        /\ read_register(consts, Last.pre, consts.registers.i).ok
        /\ write_register(consts, Last.pre, consts.registers.i, 0).r.ok) =>
        LET ip == read_register(consts, Last.pre, consts.registers.i).val
            at == 3 * ip
            w == write_register(consts, Last.pre, consts.registers.i,
                                incremented_ip(ip))
            fetched == <<Get(Last.pre, at), Get(Last.pre, at + 1),
                         Get(Last.pre, at + 2)>>
        IN  /\ at + 2 < Last.pre.len
            /\ at + 2 < RamBase
            /\ fetch(w.mem, ip).ok
            /\ fetch(w.mem, ip).bytes = fetched
            /\ Last.res.err # InvalidMemoryAddress(at)
            /\ Last.instr = from_bytes(fetched, consts.instruction_indices,
                                       consts.opcodes)

\* the last instruction of the code region, at 765..767, was fetched and run
C24_Witness ==
    /\ hist # << >>
    /\ Last.call = "step"
    /\ Reg(Last.pre, "i") = 255
    /\ Last.pre.len = BankEnd
    /\ Last.instr.kind = "Imm"
    /\ Last.res.ok
    /\ Reg(mem, "a") = 5

-----------------------------------------------------------------------------
\* C25: when a step fails with the unrecognized-opcode error, the
\* instruction-pointer register has been advanced to its old value plus one
\* and stays so, every other byte of the buffer is unchanged, and a further
\* step fetches the instruction that follows the failing one (the bytes at
\* 3 * (old ip + 1)) instead of fetching the failing one again.
DecodeFailed(h) == h.call = "step" /\ h.res.err[1] = "InvalidInstruction"

\* the buffer step k of the history left
After(k) == IF k = Len(hist) THEN mem ELSE hist[k + 1].pre

AfterDecodeFailure(next_ip(_)) ==
    \A k \in DOMAIN hist :
        (DecodeFailed(hist[k]) /\ HasBank(hist[k].pre)) =>
            LET old == Reg(hist[k].pre, "i")
                following == [j \in 1 .. InstrLen |->
                                 Get(hist[k].pre, 3 * next_ip(old) + j - 1)]
            IN  /\ Reg(After(k), "i") = next_ip(old)
                /\ SameExcept(hist[k].pre, After(k), {LocI})
                /\ (k < Len(hist) /\ hist[k + 1].call = "step") =>
                      /\ Reg(hist[k + 1].pre, "i") = next_ip(old)
                      /\ hist[k + 1].instr =
                            from_bytes(following, consts.instruction_indices,
                                       consts.opcodes)

PlusOne(ip) == ip + 1

C25_AfterDecodeFailure == AfterDecodeFailure(PlusOne)

=============================================================================
